---- MODULE Spec2Model ----
(***************************************************************************)
(* stock-sentinel: the alert registry (alert add / alert remove), the      *)
(* notification gate (cooldown, delivery, event log) and the three         *)
(* periodic monitoring tasks (price snapshots, gap alerts, rolling-window  *)
(* alerts), modelled from app/tasks/stock_monitoring.py and the services   *)
(* it calls.                                                               *)
(*                                                                         *)
(* Time is an integer number of seconds since midnight (exchange time) of  *)
(* one calendar day; every clock read of one task invocation returns the   *)
(* value of `now`.  Prices are integers, and the percentage comparisons    *)
(* of the evaluator are done by exact cross-multiplication.                *)
(***************************************************************************)
EXTENDS Integers, Sequences, FiniteSets, TLC

(***************************************************************************)
(* Bounds of the model                                                     *)
(***************************************************************************)
MaxTime == 57600        \* the clock stops advancing here (16:00:00)
MaxRules == 3           \* rows of alert_rules in the monitoring system
MaxEvents == 2          \* rows of alert_events in the monitoring system
MaxSnapshots == 1       \* rows of intraday_price_snapshots in the monitoring system
MaxCmdRules == 3        \* rows of alert_rules in the command system
MaxPairEvents == 4      \* rows of alert_events in the two-symbol system
MaxRegRules == 6        \* rows of alert_rules in the two-user registry
MaxQuoteAge == 310      \* seconds of the clock in the price-source system
MaxMagnitude == 12      \* the largest threshold magnitude the interval policy is asked about
MaxPurgeRows == 3       \* rows of intraday_price_snapshots in the purge system
MaxSnapRows == 4        \* rows of intraday_price_snapshots in the snapshot system
MaxSnapHours == 3       \* hours of the clock in the snapshot system
MaxBatchEvents == 2     \* rows of alert_events in the batching system
MaxBatchRows == 4       \* rows of intraday_price_snapshots in the batching system
MaxStaleAge == 365      \* seconds of the clock in the staleness system
MaxRetryClock == 960    \* seconds of the clock in the retry system
MaxRetryEvents == 2     \* rows of alert_events in the retry system
MaxRetryRows == 2       \* rows of intraday_price_snapshots in the retry system
MaxLiveClock == 2700    \* seconds of the clock in the delivery system
MaxInvocations == 2     \* invocations of a task in progress at once
MaxOverlapClock == 1800 \* seconds of the clock in the system of overlapping invocations

(***************************************************************************)
(* Program constants                                                       *)
(***************************************************************************)
None == -1                         \* a NULL timestamp column
ALERT_COOLDOWN_PERIOD == 3600
STOCK_PRICE_CACHE_TTL == 60
STOCK_PRICE_DB_CACHE_TTL == 300
MARKET_OPEN_TIME == 33300          \* 09:15:00
MARKET_CLOSE_TIME == 55800         \* 15:30:00
PRE_MARKET_OPEN == 32400           \* 09:00:00
POST_MARKET_OPEN == 55800          \* 15:30:00
POST_MARKET_CLOSE == 57600         \* 16:00:00
SNAPSHOT_RETENTION == 7200         \* timedelta(hours=2)
HOUR == 3600                       \* timedelta(hours=1)
max_retries == 3                   \* @celery_app.task(bind=True, max_retries=3)
task_time_limit == 600             \* task_time_limit=600 of celery_app.conf

VARIABLES
    now,          \* wall clock, seconds since midnight, exchange time
    weekday,      \* datetime.weekday() of the modelled day (0 = Monday)
    users,        \* table users: sequence of phone numbers, id = index
    rules,        \* table alert_rules: sequence of rows, id = index
    events,       \* table alert_events: sequence of rows, id = index
    snapshots,    \* table intraday_price_snapshots, in insertion order
    redis,        \* fast cache: symbol -> entry (quote, expiry)
    pricecache,   \* table stock_price_cache: the rows, in the order of their insertion
    outbox,       \* messages accepted by the transport
    lastEval,     \* history: per rule id, time of its latest evaluation
    last,         \* history: the operation just performed and its outcome
    call          \* the latest pure-function call: function, arguments, result

vars == <<now, weekday, users, rules, events, snapshots, redis, pricecache,
          outbox, lastEval, last, call>>

dbvars == <<users, rules, events, snapshots, redis, pricecache, outbox>>

(***************************************************************************)
(* Small helpers                                                           *)
(***************************************************************************)
Abs(x) == IF x < 0 THEN -x ELSE x

Range(s) == {s[i] : i \in DOMAIN s}

RECURSIVE SetToSeq(_)
\* the elements of a set of integers in increasing order
SetToSeq(S) ==
    IF S = {} THEN <<>>
    ELSE LET m == CHOOSE x \in S : \A y \in S : x <= y
         IN <<m>> \o SetToSeq(S \ {m})

(***************************************************************************)
(* Market hours (app/utils/market_hours.py)                                *)
(***************************************************************************)
\* the mutant of is_market_open: the day of the week is not looked at
is_market_open_any_day(wd, t) ==
    MARKET_OPEN_TIME <= t /\ t <= MARKET_CLOSE_TIME

\* is_market_open: weekends are closed; open from 09:15 to 15:30, both
\* ends included (MARKET_OPEN_TIME <= current_time <= MARKET_CLOSE_TIME)
is_market_open(wd, t) ==
    IF wd >= 5 THEN FALSE
    ELSE MARKET_OPEN_TIME <= t /\ t <= MARKET_CLOSE_TIME

\* the mutant of get_market_phase: the session ends before 15:30:00
get_market_phase_half_open(wd, t) ==
    IF wd >= 5 THEN "closed"
    ELSE IF PRE_MARKET_OPEN <= t /\ t < MARKET_OPEN_TIME THEN "pre_market"
    ELSE IF MARKET_OPEN_TIME <= t /\ t < MARKET_CLOSE_TIME THEN "open"
    ELSE IF POST_MARKET_OPEN <= t /\ t <= POST_MARKET_CLOSE THEN "post_market"
    ELSE "closed"

\* the mutant of get_market_phase: the post-market range is tested first
get_market_phase_post_first(wd, t) ==
    IF wd >= 5 THEN "closed"
    ELSE IF PRE_MARKET_OPEN <= t /\ t < MARKET_OPEN_TIME THEN "pre_market"
    ELSE IF POST_MARKET_OPEN <= t /\ t <= POST_MARKET_CLOSE THEN "post_market"
    ELSE IF MARKET_OPEN_TIME <= t /\ t <= MARKET_CLOSE_TIME THEN "open"
    ELSE "closed"

\* get_market_phase: the first matching range wins
get_market_phase(wd, t) ==
    IF wd >= 5 THEN "closed"
    ELSE IF PRE_MARKET_OPEN <= t /\ t < MARKET_OPEN_TIME THEN "pre_market"
    ELSE IF MARKET_OPEN_TIME <= t /\ t <= MARKET_CLOSE_TIME THEN "open"
    ELSE IF POST_MARKET_OPEN <= t /\ t <= POST_MARKET_CLOSE THEN "post_market"
    ELSE "closed"

(***************************************************************************)
(* Command parser (app/services/command_parser.py).  A token of the        *)
(* message is a sequence of one-character strings.                         *)
(***************************************************************************)
Digits == <<"0", "1", "2", "3", "4", "5", "6", "7", "8", "9">>

IsDigit(c) == \E i \in 1..10 : Digits[i] = c

DigitVal(c) == (CHOOSE i \in 1..10 : Digits[i] = c) - 1

UpperCase == <<"A", "B", "C", "D", "I", "N", "R", "S", "T", "Y", "F">>
LowerCase == <<"a", "b", "c", "d", "i", "n", "r", "s", "t", "y", "f">>

\* str.lower() and str.upper(), over the letters that occur in the inputs
LowerChar(c) ==
    IF \E i \in DOMAIN UpperCase : UpperCase[i] = c
    THEN LowerCase[CHOOSE i \in DOMAIN UpperCase : UpperCase[i] = c]
    ELSE c

UpperChar(c) ==
    IF \E i \in DOMAIN LowerCase : LowerCase[i] = c
    THEN UpperCase[CHOOSE i \in DOMAIN LowerCase : LowerCase[i] = c]
    ELSE c

Lower(s) == [i \in DOMAIN s |-> LowerChar(s[i])]

Upper(s) == [i \in DOMAIN s |-> UpperChar(s[i])]

RECURSIVE Strip(_)
\* str.strip(): leading and trailing blanks removed
Strip(s) ==
    IF s = <<>> THEN s
    ELSE IF Head(s) = " " THEN Strip(Tail(s))
    ELSE IF s[Len(s)] = " " THEN Strip(SubSeq(s, 1, Len(s) - 1))
    ELSE s

\* str.replace("%", "")
RemovePercent(s) == SelectSeq(s, LAMBDA c : c # "%")

RECURSIVE DigitsValue(_)
\* the value of a string of decimal digits
DigitsValue(s) ==
    IF s = <<>> THEN 0
    ELSE 10 * DigitsValue(SubSeq(s, 1, Len(s) - 1)) + DigitVal(s[Len(s)])

AllDigits(s) == \A i \in DOMAIN s : IsDigit(s[i])

\* float(): [sign] digits [ "." [digit] ], the value in tenths; any other
\* string of the input alphabet raises ValueError (ok = FALSE)
ParseFloat(s) ==
    LET signed == s # <<>> /\ Head(s) \in {"+", "-"}
        body == IF signed THEN Tail(s) ELSE s
        dot == IF \E i \in DOMAIN body : body[i] = "."
               THEN CHOOSE i \in DOMAIN body : body[i] = "." /\ \A j \in 1..(i - 1) : body[j] # "."
               ELSE 0
        ip == IF dot = 0 THEN body ELSE SubSeq(body, 1, dot - 1)
        fp == IF dot = 0 THEN <<>> ELSE SubSeq(body, dot + 1, Len(body))
        ok == /\ AllDigits(ip) /\ AllDigits(fp)
              /\ Len(ip) + Len(fp) >= 1
              /\ Len(fp) <= 1
        mag == 10 * DigitsValue(ip) + DigitsValue(fp)
    IN IF ~ok THEN [ok |-> FALSE, tenths |-> 0]
       ELSE [ok |-> TRUE,
             tenths |-> IF signed /\ Head(s) = "-" THEN -mag ELSE mag]

SupportedTenths == {50, 70, 80, 90, 100}

\* an alert type "gap_down_8" is the pair of its prefix and its number
AlertType(prefix, pct) == [prefix |-> prefix, pct |-> pct]

NoThreshold == [ok |-> FALSE, alert_type |-> AlertType("", 0), threshold |-> 0]

\* CommandParser.parse_alert_threshold: (alert_type, threshold_percent) or None
parse_alert_threshold(threshold_str) ==
    LET s1 == Strip(Lower(threshold_str))
        s2 == Strip(RemovePercent(s1))
        is_spike == s2 # <<>> /\ Head(s2) = "+"
        f == ParseFloat(s2)
        abs_value == Abs(f.tenths)
        threshold_int == abs_value \div 10
    IN IF s1 = <<"i", "n", "t", "r", "a", "d", "a", "y">>
       THEN [ok |-> TRUE, alert_type |-> AlertType("intraday_1h", 0), threshold |-> 1]
       ELSE IF ~f.ok THEN NoThreshold
       ELSE IF abs_value \notin SupportedTenths THEN NoThreshold
       ELSE IF is_spike \/ (f.tenths > 0 /\ ~(s2 # <<>> /\ Head(s2) = "-"))
       THEN [ok |-> TRUE, alert_type |-> AlertType("spike_", threshold_int),
             threshold |-> threshold_int]
       ELSE [ok |-> TRUE, alert_type |-> AlertType("drop_", threshold_int),
             threshold |-> -threshold_int]

\* str.isdigit()
IsDigitString(s) == s # <<>> /\ AllDigits(s)

\* CommandParser.parse_alert_identifier: ("id", int) or ("symbol", upper-case)
parse_alert_identifier(identifier) ==
    IF IsDigitString(identifier)
    THEN [id_type |-> "id", id |-> DigitsValue(identifier), symbol |-> <<>>]
    ELSE [id_type |-> "symbol", id |-> 0, symbol |-> Upper(identifier)]

(***************************************************************************)
(* Dynamic interval policy                                                 *)
(***************************************************************************)
\* AlertEvaluator.get_check_interval
get_check_interval(threshold_percent) ==
    LET abs_threshold == Abs(threshold_percent)
    IN IF abs_threshold >= 10 THEN 300
       ELSE IF abs_threshold >= 7 THEN 900
       ELSE 1800

\* the mutant of the inline computation: the 15-minute tier is missing
add_check_interval_two_tier(threshold_pct_int) ==
    IF threshold_pct_int >= 10 THEN 300
    ELSE 1800

\* the inline computation of AlertHandler._handle_add
add_check_interval(threshold_pct_int) ==
    IF threshold_pct_int >= 10 THEN 300
    ELSE IF threshold_pct_int >= 7 THEN 900
    ELSE 1800

(***************************************************************************)
(* Alert evaluation (app/services/alert_evaluator.py).  A quote carries    *)
(* current_price, previous_close and open_price; 0 stands for a missing    *)
(* or zero (falsy) field.  x/y*100 <= t is decided as 100*x <= t*y, y > 0. *)
(***************************************************************************)
\* the mutant of the gap-down test: the boundary does not trigger
EvaluateGapDownStrict(alert, price_data) ==
    LET open_price == price_data.open_price
        previous_close == price_data.previous_close
    IN IF open_price = 0 \/ previous_close = 0 THEN FALSE
       ELSE (open_price - previous_close) * 100 < alert.threshold_percent * previous_close

\* AlertEvaluator._evaluate_gap_down
EvaluateGapDown(alert, price_data) ==
    LET open_price == price_data.open_price
        previous_close == price_data.previous_close
    IN IF open_price = 0 \/ previous_close = 0 THEN FALSE
       ELSE (open_price - previous_close) * 100 <= alert.threshold_percent * previous_close

\* AlertEvaluator._evaluate_gap_up
EvaluateGapUp(alert, price_data) ==
    LET open_price == price_data.open_price
        previous_close == price_data.previous_close
    IN IF open_price = 0 \/ previous_close = 0 THEN FALSE
       ELSE (open_price - previous_close) * 100 >= alert.threshold_percent * previous_close

\* the mutant of the snapshot query: the start of the window is left out
WindowPricesOpenStart(snaps, symbol, t, hours) ==
    LET window_start == t - hours * HOUR
    IN {snaps[i].price : i \in {j \in DOMAIN snaps :
            /\ snaps[j].stock_symbol = symbol
            /\ snaps[j].snapshot_time > window_start
            /\ snaps[j].snapshot_time <= t}}

\* the mutant of the snapshot query: the window shrinks as the hours grow
WindowPricesNarrowing(snaps, symbol, t, hours) ==
    LET window_start == t - HOUR \div hours
    IN {snaps[i].price : i \in {j \in DOMAIN snaps :
            /\ snaps[j].stock_symbol = symbol
            /\ snaps[j].snapshot_time >= window_start
            /\ snaps[j].snapshot_time <= t}}

\* the snapshot query of the rolling-window evaluators: the prices of the
\* symbol's snapshots with window_start <= snapshot_time <= now
WindowPrices(snaps, symbol, t, hours) ==
    LET window_start == t - hours * HOUR
    IN {snaps[i].price : i \in {j \in DOMAIN snaps :
            /\ snaps[j].stock_symbol = symbol
            /\ snaps[j].snapshot_time >= window_start
            /\ snaps[j].snapshot_time <= t}}

SetMax(S) == CHOOSE x \in S : \A y \in S : y <= x

SetMin(S) == CHOOSE x \in S : \A y \in S : y >= x

\* AlertEvaluator._evaluate_drop_from_high; a zero high raises
\* ZeroDivisionError, which the method catches and answers False
EvaluateDropFromHigh(alert, price_data, snaps, t, hours) ==
    LET current_price == price_data.current_price
        prices == WindowPrices(snaps, alert.stock_symbol, t, hours)
    IN IF current_price = 0 THEN FALSE
       ELSE IF prices = {} THEN FALSE
       ELSE LET highest_price == SetMax(prices)
            IN IF highest_price = 0 THEN FALSE
               ELSE (current_price - highest_price) * 100
                        <= alert.threshold_percent * highest_price

\* the mutant of the spike test: the snapshots of every symbol are looked at
EvaluateSpikeFromLowAnySymbol(alert, price_data, snaps, t, hours) ==
    LET current_price == price_data.current_price
        prices == {snaps[i].price : i \in {j \in DOMAIN snaps :
                        /\ snaps[j].snapshot_time >= t - hours * HOUR
                        /\ snaps[j].snapshot_time <= t}}
    IN IF current_price = 0 THEN FALSE
       ELSE IF prices = {} THEN FALSE
       ELSE LET lowest_price == SetMin(prices)
            IN IF lowest_price = 0 THEN FALSE
               ELSE (current_price - lowest_price) * 100
                        >= alert.threshold_percent * lowest_price

\* AlertEvaluator._evaluate_spike_from_low
EvaluateSpikeFromLow(alert, price_data, snaps, t, hours) ==
    LET current_price == price_data.current_price
        prices == WindowPrices(snaps, alert.stock_symbol, t, hours)
    IN IF current_price = 0 THEN FALSE
       ELSE IF prices = {} THEN FALSE
       ELSE LET lowest_price == SetMin(prices)
            IN IF lowest_price = 0 THEN FALSE
               ELSE (current_price - lowest_price) * 100
                        >= alert.threshold_percent * lowest_price

\* the mutant of the dispatch: a type it does not know is taken for a 1-hour drop
should_trigger_default_drop(alert, price_data, snaps, t) ==
    LET prefix == alert.alert_type.prefix
    IN IF prefix = "gap_down_" THEN EvaluateGapDown(alert, price_data)
       ELSE IF prefix = "gap_up_" THEN EvaluateGapUp(alert, price_data)
       ELSE IF prefix \in {"drop_2h_", "intraday_2h_"}
       THEN EvaluateDropFromHigh(alert, price_data, snaps, t, 2)
       ELSE IF prefix = "spike_1h_" THEN EvaluateSpikeFromLow(alert, price_data, snaps, t, 1)
       ELSE IF prefix = "spike_2h_" THEN EvaluateSpikeFromLow(alert, price_data, snaps, t, 2)
       ELSE EvaluateDropFromHigh(alert, price_data, snaps, t, 1)

\* AlertEvaluator.should_trigger: dispatch on the prefix of alert_type
should_trigger(alert, price_data, snaps, t) ==
    LET prefix == alert.alert_type.prefix
    IN IF prefix = "gap_down_" THEN EvaluateGapDown(alert, price_data)
       ELSE IF prefix = "gap_up_" THEN EvaluateGapUp(alert, price_data)
       ELSE IF prefix = "drop_1h_" THEN EvaluateDropFromHigh(alert, price_data, snaps, t, 1)
       ELSE IF prefix = "drop_2h_" THEN EvaluateDropFromHigh(alert, price_data, snaps, t, 2)
       ELSE IF prefix = "spike_1h_" THEN EvaluateSpikeFromLow(alert, price_data, snaps, t, 1)
       ELSE IF prefix = "spike_2h_" THEN EvaluateSpikeFromLow(alert, price_data, snaps, t, 2)
       ELSE IF prefix = "intraday_1h_" THEN EvaluateDropFromHigh(alert, price_data, snaps, t, 1)
       ELSE IF prefix = "intraday_2h_" THEN EvaluateDropFromHigh(alert, price_data, snaps, t, 2)
       ELSE FALSE

(***************************************************************************)
(* Notification gate (app/services/notification_service.py)                *)
(***************************************************************************)
\* the mutant of the cooldown test: a strict comparison
CooldownPassedStrict(last_triggered_at, t) ==
    (t - last_triggered_at) > ALERT_COOLDOWN_PERIOD

\* time_since_last.total_seconds() >= self.cooldown_period
CooldownPassed(last_triggered_at, t) ==
    (t - last_triggered_at) >= ALERT_COOLDOWN_PERIOD

\* the mutant of the gate: the cooldown is not consulted
can_send_without_cooldown(alert, t) ==
    alert.last_triggered_at = None \/ t >= alert.last_triggered_at

\* NotificationService.can_send_notification
can_send_notification(alert, t) ==
    IF alert.last_triggered_at = None THEN TRUE
    ELSE CooldownPassed(alert.last_triggered_at, t)

(***************************************************************************)
(* Price source (app/services/stock_service.py)                            *)
(***************************************************************************)
\* "no price": get_current_price returned None
NoQuote == [current_price |-> 0, previous_close |-> 0, open_price |-> 0,
            timestamp |-> None]

\* an absent key of the fast cache
NoEntry == [quote |-> NoQuote, expires_at |-> None]

\* the answer of the remote provider: a failed fetch, or three prices
RemoteFailure == [ok |-> FALSE, current_price |-> 0, previous_close |-> 0,
                  open_price |-> 0]

\* the mutant of the fast-cache read: it never finds the key
GetFromRedisCacheNever(rd, symbol, t) == NoQuote

\* StockPriceService._get_from_redis_cache: the key is gone once its TTL ran out
GetFromRedisCache(rd, symbol, t) ==
    IF rd[symbol].expires_at # None /\ t < rd[symbol].expires_at
    THEN rd[symbol].quote
    ELSE NoQuote

\* StockPriceService._set_redis_cache: setex with the fast-cache TTL
SetRedisCache(rd, symbol, price_data, t) ==
    [rd EXCEPT ![symbol] = [quote |-> price_data,
                            expires_at |-> t + STOCK_PRICE_CACHE_TTL]]

\* the mutant of the staleness test: an entry as old as the TTL is stale
IsDbCacheStaleAtTtl(cached_data, t) ==
    (t - cached_data.timestamp) >= STOCK_PRICE_DB_CACHE_TTL

\* the mutant of the staleness test: an entry lives twice the TTL
IsDbCacheStaleTwiceTtl(cached_data, t) ==
    (t - cached_data.timestamp) > 2 * STOCK_PRICE_DB_CACHE_TTL

\* StockPriceService._is_db_cache_stale
IsDbCacheStale(cached_data, t) ==
    (t - cached_data.timestamp) > STOCK_PRICE_DB_CACHE_TTL

\* StockPriceService._fetch_from_yfinance: None on any failure
FetchFromYfinance(remote, t) ==
    IF ~remote.ok THEN NoQuote
    ELSE [current_price |-> remote.current_price,
          previous_close |-> remote.previous_close,
          open_price |-> remote.open_price,
          timestamp |-> t]

\* a row of table stock_price_cache
CacheEntry(symbol, price_data, t) ==
    [stock_symbol |-> symbol, current_price |-> price_data.current_price,
     previous_close |-> price_data.previous_close,
     open_price |-> price_data.open_price, last_updated |-> t]

\* the positions of the rows of a symbol: query(StockPriceCache).filter(...)
EntriesOf(pc, symbol) == {i \in DOMAIN pc : pc[i].stock_symbol = symbol}

\* StockPriceService._get_from_db_cache: the first row of the symbol as a
\* quote stamped with the row's last_updated, None without a row
GetFromDbCache(pc, symbol) ==
    IF EntriesOf(pc, symbol) = {} THEN NoQuote
    ELSE LET cache_entry == pc[SetMin(EntriesOf(pc, symbol))]
         IN [current_price |-> cache_entry.current_price,
             previous_close |-> cache_entry.previous_close,
             open_price |-> cache_entry.open_price,
             timestamp |-> cache_entry.last_updated]

\* the mutant of the durable write: a new row at every write
UpdateDbCacheInsertOnly(pc, symbol, price_data, t) ==
    Append(pc, CacheEntry(symbol, price_data, t))

\* StockPriceService._update_db_cache: the first row of the symbol is
\* overwritten, a row is added when the symbol has none
UpdateDbCache(pc, symbol, price_data, t) ==
    IF EntriesOf(pc, symbol) # {}
    THEN [pc EXCEPT ![SetMin(EntriesOf(pc, symbol))] = CacheEntry(symbol, price_data, t)]
    ELSE Append(pc, CacheEntry(symbol, price_data, t))

\* the mutant of get_current_price: a failed fetch falls back on the stale
\* durable entry
get_current_price_stale_fallback(rd, pc, symbol, remote, t) ==
    LET cached == GetFromRedisCache(rd, symbol, t)
        db_cached == GetFromDbCache(pc, symbol)
        fetched == FetchFromYfinance(remote, t)
    IN IF cached # NoQuote
       THEN [price_data |-> cached, redis |-> rd, pricecache |-> pc, tier |-> 1]
       ELSE IF db_cached # NoQuote /\ (~IsDbCacheStale(db_cached, t) \/ fetched = NoQuote)
       THEN [price_data |-> db_cached,
             redis |-> SetRedisCache(rd, symbol, db_cached, t),
             pricecache |-> pc, tier |-> 2]
       ELSE IF fetched # NoQuote
       THEN [price_data |-> fetched,
             redis |-> SetRedisCache(rd, symbol, fetched, t),
             pricecache |-> UpdateDbCache(pc, symbol, fetched, t), tier |-> 3]
       ELSE [price_data |-> NoQuote, redis |-> rd, pricecache |-> pc, tier |-> 3]

\* StockPriceService.get_current_price: fast cache, durable cache, remote.
\* Answers the quote and the two caches afterwards.
get_current_price(rd, pc, symbol, remote, t) ==
    LET cached == GetFromRedisCache(rd, symbol, t)
        db_cached == GetFromDbCache(pc, symbol)
        fetched == FetchFromYfinance(remote, t)
    IN IF cached # NoQuote
       THEN [price_data |-> cached, redis |-> rd, pricecache |-> pc, tier |-> 1]
       ELSE IF db_cached # NoQuote /\ ~IsDbCacheStale(db_cached, t)
       THEN [price_data |-> db_cached,
             redis |-> SetRedisCache(rd, symbol, db_cached, t),
             pricecache |-> pc, tier |-> 2]
       ELSE IF fetched # NoQuote
       THEN [price_data |-> fetched,
             redis |-> SetRedisCache(rd, symbol, fetched, t),
             pricecache |-> UpdateDbCache(pc, symbol, fetched, t), tier |-> 3]
       ELSE [price_data |-> NoQuote, redis |-> rd, pricecache |-> pc, tier |-> 3]

(***************************************************************************)
(* Delivery (NotificationService.send_alert_notification) and the          *)
(* processing of one rule and of one symbol group by the alert tasks.      *)
(* A task state `st` holds the session's view of the rules (rulesS), the   *)
(* committed rules (rulesD), the event log, the outbox, the caches and     *)
(* the record of what the task did.                                        *)
(*                                                                         *)
(* Failures of the environment: the remote provider may fail to answer,    *)
(* the transport may raise, and the store may refuse the commit that ends  *)
(* a symbol group, which the tasks answer with a rollback.  The commits    *)
(* inside send_alert_notification are taken to succeed.                    *)
(***************************************************************************)
\* a row of alert_events
AlertEvent(alert_id, t, price_data, sent, sid) ==
    [alert_rule_id |-> alert_id, triggered_at |-> t,
     stock_price |-> price_data.current_price,
     previous_price |-> price_data.previous_close,
     notification_sent |-> sent, notification_sid |-> sid,
     error_message |-> ~sent]

\* the mutant of a successful send: last_triggered_at is not set
DeliverOkUnstamped(st, r, price_data, t) ==
    [st EXCEPT !.outbox = Append(@, [to |-> users[st.rulesS[r].user_id], alert_id |-> r]),
               !.events = Append(@, AlertEvent(r, t, price_data, TRUE, Len(st.outbox) + 1)),
               !.rulesD = st.rulesS,
               !.delivered = @ \cup {r}]

\* send succeeded: the event with the transport id, last_triggered_at, commit
DeliverOk(st, r, price_data, t) ==
    LET sid == Len(st.outbox) + 1
        rs == [st.rulesS EXCEPT ![r].last_triggered_at = t]
    IN [st EXCEPT !.outbox = Append(@, [to |-> users[st.rulesS[r].user_id], alert_id |-> r]),
                  !.events = Append(@, AlertEvent(r, t, price_data, TRUE, sid)),
                  !.rulesS = rs,
                  !.rulesD = rs,
                  !.delivered = @ \cup {r}]

\* the mutant of a failed send: last_triggered_at is set all the same
DeliverFailedStamped(st, r, price_data, t) ==
    LET rs == [st.rulesS EXCEPT ![r].last_triggered_at = t]
    IN [st EXCEPT !.events = Append(@, AlertEvent(r, t, price_data, FALSE, 0)),
                  !.rulesS = rs,
                  !.rulesD = rs,
                  !.sendFailed = @ \cup {r}]

\* send raised: the failed event is logged and committed, the rule is not touched
DeliverFailed(st, r, price_data, t) ==
    [st EXCEPT !.events = Append(@, AlertEvent(r, t, price_data, FALSE, 0)),
               !.rulesD = st.rulesS,
               !.sendFailed = @ \cup {r}]

\* send_alert_notification: True iff the transport accepted the message
send_alert_notification(st, r, price_data, transportOk, t) ==
    IF transportOk THEN DeliverOk(st, r, price_data, t)
    ELSE DeliverFailed(st, r, price_data, t)

\* the mutant of the last_checked_at update: the rule is left as it was
MarkEvaluated(st, r, t) ==
    [st EXCEPT !.evaluated = @ \cup {r}]

\* alert.last_checked_at = datetime.utcnow(), in the session
MarkChecked(st, r, t) ==
    [st EXCEPT !.rulesS = [@ EXCEPT ![r].last_checked_at = t],
               !.evaluated = @ \cup {r}]

\* the mutant of the loop body: a trigger blocked by the cooldown is logged too
ProcessAlertLoggingBlocked(st, r, price_data, snaps, sendFails, t) ==
    LET alert == st.rulesS[r]
        triggered == should_trigger(alert, price_data, snaps, t)
        st1 == IF ~triggered THEN st
               ELSE IF ~can_send_notification(alert, t)
               THEN [st EXCEPT !.blocked = @ \cup {r},
                               !.events = Append(@, AlertEvent(r, t, price_data, FALSE, 0))]
               ELSE send_alert_notification(st, r, price_data, r \notin sendFails, t)
    IN MarkChecked(st1, r, t)

\* the body of "for alert in alerts" of both alert tasks
ProcessAlert(st, r, price_data, snaps, sendFails, t) ==
    LET alert == st.rulesS[r]
        triggered == should_trigger(alert, price_data, snaps, t)
        st1 == IF ~triggered THEN st
               ELSE IF ~can_send_notification(alert, t)
               THEN [st EXCEPT !.blocked = @ \cup {r}]
               ELSE send_alert_notification(st, r, price_data, r \notin sendFails, t)
    IN MarkChecked(st1, r, t)

RECURSIVE ProcessAlerts(_, _, _, _, _, _)
ProcessAlerts(st, ids, price_data, snaps, sendFails, t) ==
    IF ids = <<>> THEN st
    ELSE CHOOSE done \in
            {ProcessAlerts(st1, Tail(ids), price_data, snaps, sendFails, t) :
                st1 \in {ProcessAlert(st, Head(ids), price_data, snaps, sendFails, t)}} :
            TRUE

\* db.commit() at the end of a symbol group
CommitGroup(st) == [st EXCEPT !.rulesD = st.rulesS]

\* the commit raised: "except Exception: db.rollback(); continue"
RollbackGroup(st, symbol) ==
    [st EXCEPT !.rulesS = st.rulesD, !.groupFailed = @ \cup {symbol}]

\* the body of "for symbol, alerts in alerts_by_symbol.items()"
ProcessSymbol(st, symbol, ids, remote, snaps, sendFails, commitFails, t) ==
    LET got == get_current_price(st.redis, st.pricecache, symbol, remote[symbol], t)
        st0 == [st EXCEPT !.redis = got.redis, !.pricecache = got.pricecache,
                          !.fetches = Append(@, symbol)]
    IN IF got.price_data = NoQuote
       THEN [st0 EXCEPT !.fetchFailed = @ \cup {symbol}]
       ELSE LET st1 == ProcessAlerts(st0, ids, got.price_data, snaps, sendFails, t)
            IN IF symbol \in commitFails THEN RollbackGroup(st1, symbol)
               ELSE CommitGroup(st1)

\* the ids among `ids` (in order) of the rules of one symbol
IdsOfSymbol(rs, ids, symbol) == SelectSeq(ids, LAMBDA r : rs[r].stock_symbol = symbol)

\* the mutant of the grouping: a group for every rule, symbols repeating
SymbolOrderPerRule(rs, ids) == [i \in DOMAIN ids |-> rs[ids[i]].stock_symbol]

RECURSIVE SymbolOrder(_, _)
\* the keys of alerts_by_symbol, in the order of first appearance
SymbolOrder(rs, ids) ==
    IF ids = <<>> THEN <<>>
    ELSE LET sym == rs[Head(ids)].stock_symbol
         IN <<sym>> \o SymbolOrder(rs, SelectSeq(Tail(ids), LAMBDA r : rs[r].stock_symbol # sym))

RECURSIVE ProcessSymbols(_, _, _, _, _, _, _, _)
ProcessSymbols(st, syms, ids, remote, snaps, sendFails, commitFails, t) ==
    IF syms = <<>> THEN st
    ELSE CHOOSE done \in
            {ProcessSymbols(st1, Tail(syms), ids, remote, snaps, sendFails, commitFails, t) :
                st1 \in {ProcessSymbol(st, Head(syms),
                                       IdsOfSymbol(st.rulesD, ids, Head(syms)),
                                       remote, snaps, sendFails, commitFails, t)}} :
            TRUE

\* the state a task starts from
TaskState ==
    [rulesS |-> rules, rulesD |-> rules, events |-> events, outbox |-> outbox,
     redis |-> redis, pricecache |-> pricecache,
     evaluated |-> {}, blocked |-> {}, delivered |-> {}, sendFailed |-> {},
     fetchFailed |-> {}, groupFailed |-> {}, fetches |-> <<>>]

(***************************************************************************)
(* Inputs of the model                                                     *)
(***************************************************************************)
TCS == <<"T", "C", "S">>
INFY == <<"I", "N", "F", "Y">>

\* the symbols the caches are keyed by
Symbols == {TCS, INFY}

\* the phone numbers messages come from
Phones == {"+911", "+912"}

\* what the remote provider may answer in the monitoring model
Remotes ==
    {RemoteFailure,
     [ok |-> TRUE, current_price |-> 100, previous_close |-> 100, open_price |-> 100],
     [ok |-> TRUE, current_price |-> 95, previous_close |-> 100, open_price |-> 95]}

\* how far the clock moves in one step
TimeSteps == {3600}

\* the day and time the model starts at: a Monday or a Saturday, 14:00:00
StartWeekdays == {0, 5}
StartTime == 14 * HOUR

(***************************************************************************)
(* The record of the operation just performed                              *)
(***************************************************************************)
Outcome(op, status, ids) ==
    [op |-> op, status |-> status, ids |-> ids, input |-> <<>>,
     evaluated |-> {}, blocked |-> {}, delivered |-> {}, sendFailed |-> {},
     fetchFailed |-> {}, groupFailed |-> {}, fetches |-> <<>>]

\* the outcome of a command, with the words of the message
CommandOutcome(op, status, ids, input) ==
    [Outcome(op, status, ids) EXCEPT !.input = input]

TaskOutcome(op, st, ids) ==
    [op |-> op, status |-> "success", ids |-> ids, input |-> <<>>,
     evaluated |-> st.evaluated, blocked |-> st.blocked,
     delivered |-> st.delivered, sendFailed |-> st.sendFailed,
     fetchFailed |-> st.fetchFailed, groupFailed |-> st.groupFailed,
     fetches |-> st.fetches]

(***************************************************************************)
(* Alert commands (app/services/command_handlers/alert_handler.py)         *)
(***************************************************************************)
\* AlertHandler._get_user: the id of the phone number's user, 0 for None
GetUser(us, phone) ==
    IF \E i \in DOMAIN us : us[i] = phone
    THEN CHOOSE i \in DOMAIN us : us[i] = phone
    ELSE 0

\* AlertHandler._get_or_create_user: the users table afterwards
GetOrCreateUser(us, phone) ==
    IF GetUser(us, phone) # 0 THEN us ELSE Append(us, phone)

\* a new row of alert_rules
NewRule(user_id, symbol, alert_type, threshold_percent, check_interval) ==
    [user_id |-> user_id, stock_symbol |-> symbol, alert_type |-> alert_type,
     threshold_percent |-> threshold_percent,
     check_interval_seconds |-> check_interval,
     is_active |-> TRUE, last_checked_at |-> None, last_triggered_at |-> None]

\* the mutant of the triplet: the third rule repeats the 1-hour window
TripletTwice1h(user_id, symbol, threshold_percent) ==
    LET threshold_pct_int == Abs(threshold_percent)
        is_drop == threshold_percent < 0
        check_interval == add_check_interval(threshold_pct_int)
        gap_type == IF is_drop THEN "gap_down_" ELSE "gap_up_"
        window_1h_type == IF is_drop THEN "drop_1h_" ELSE "spike_1h_"
    IN << NewRule(user_id, symbol, AlertType(gap_type, threshold_pct_int),
                  threshold_percent, check_interval),
          NewRule(user_id, symbol, AlertType(window_1h_type, threshold_pct_int),
                  threshold_percent, check_interval),
          NewRule(user_id, symbol, AlertType(window_1h_type, threshold_pct_int),
                  threshold_percent, check_interval) >>

\* the three rules _handle_add creates: gap, 1-hour window, 2-hour window
Triplet(user_id, symbol, threshold_percent) ==
    LET threshold_pct_int == Abs(threshold_percent)
        is_drop == threshold_percent < 0
        check_interval == add_check_interval(threshold_pct_int)
        gap_type == IF is_drop THEN "gap_down_" ELSE "gap_up_"
        window_1h_type == IF is_drop THEN "drop_1h_" ELSE "spike_1h_"
        window_2h_type == IF is_drop THEN "drop_2h_" ELSE "spike_2h_"
    IN << NewRule(user_id, symbol, AlertType(gap_type, threshold_pct_int),
                  threshold_percent, check_interval),
          NewRule(user_id, symbol, AlertType(window_1h_type, threshold_pct_int),
                  threshold_percent, check_interval),
          NewRule(user_id, symbol, AlertType(window_2h_type, threshold_pct_int),
                  threshold_percent, check_interval) >>

\* the mutant of the duplicate query: only a whole active triplet counts
ExistingAlertsWholeTriplet(rs, user_id, symbol, threshold_percent) ==
    LET found == {i \in DOMAIN rs : /\ rs[i].user_id = user_id
                                    /\ rs[i].stock_symbol = symbol
                                    /\ rs[i].threshold_percent = threshold_percent
                                    /\ rs[i].is_active}
    IN IF Cardinality(found) >= 3 THEN found ELSE {}

\* the query of _handle_add for the user's active rules of a symbol and threshold
ExistingAlerts(rs, user_id, symbol, threshold_percent) ==
    {i \in DOMAIN rs : /\ rs[i].user_id = user_id
                       /\ rs[i].stock_symbol = symbol
                       /\ rs[i].threshold_percent = threshold_percent
                       /\ rs[i].is_active}

\* AlertHandler._handle_add for the message "alert add <symbolArg> <thresholdArg>"
HandleAdd(phone, symbolArg, thresholdArg) ==
    LET symbol == Upper(symbolArg)
        threshold_result == parse_alert_threshold(thresholdArg)
        us == GetOrCreateUser(users, phone)
        user_id == GetUser(us, phone)
        threshold_percent == threshold_result.threshold
        existing == ExistingAlerts(rules, user_id, symbol, threshold_percent)
        input == <<phone, symbolArg, thresholdArg>>
    IN /\ UNCHANGED <<now, weekday, events, snapshots, redis, pricecache, outbox, call>>
       /\ IF ~threshold_result.ok
          THEN /\ UNCHANGED <<users, rules, lastEval>>
               /\ last' = CommandOutcome("add", "invalid_threshold", {}, input)
          ELSE IF existing # {}
          THEN /\ users' = us
               /\ UNCHANGED <<rules, lastEval>>
               /\ last' = CommandOutcome("add", "already_exists", existing, input)
          ELSE /\ users' = us
               /\ rules' = rules \o Triplet(user_id, symbol, threshold_percent)
               /\ lastEval' = lastEval \o <<None, None, None>>
               /\ last' = CommandOutcome("add", "created",
                                         (Len(rules) + 1)..(Len(rules) + 3), input)

\* the mutant of the deactivation: every rule of the symbols of `ids` goes
DeactivatedWholeSymbol(rs, ids) ==
    [i \in DOMAIN rs |->
        IF \E j \in ids : rs[j].stock_symbol = rs[i].stock_symbol
        THEN [rs[i] EXCEPT !.is_active = FALSE]
        ELSE rs[i]]

\* alert.is_active = False for each of the rules `ids`
Deactivated(rs, ids) ==
    [i \in DOMAIN rs |-> IF i \in ids THEN [rs[i] EXCEPT !.is_active = FALSE] ELSE rs[i]]

\* the mutant of _handle_remove: the queries do not look at is_active
HandleRemoveAnyState(phone, identifier) ==
    LET user_id == GetUser(users, phone)
        parsed == parse_alert_identifier(identifier)
        byId == {i \in DOMAIN rules : i = parsed.id /\ rules[i].user_id = user_id}
        bySymbol == {i \in DOMAIN rules : /\ rules[i].user_id = user_id
                                          /\ rules[i].stock_symbol = parsed.symbol}
        hit == IF parsed.id_type = "id" THEN byId ELSE bySymbol
        input == <<phone, identifier>>
    IN /\ UNCHANGED <<now, weekday, users, events, snapshots, redis, pricecache,
                      outbox, lastEval, call>>
       /\ IF user_id = 0
          THEN /\ UNCHANGED rules
               /\ last' = CommandOutcome("remove", "no_alerts", {}, input)
          ELSE IF hit = {}
          THEN /\ UNCHANGED rules
               /\ last' = CommandOutcome("remove", "not_found", {}, input)
          ELSE /\ rules' = Deactivated(rules, hit)
               /\ last' = CommandOutcome("remove", "removed", hit, input)

\* AlertHandler._handle_remove for the message "alert remove <identifier>"
HandleRemove(phone, identifier) ==
    LET user_id == GetUser(users, phone)
        parsed == parse_alert_identifier(identifier)
        byId == {i \in DOMAIN rules : /\ i = parsed.id
                                      /\ rules[i].user_id = user_id
                                      /\ rules[i].is_active}
        bySymbol == {i \in DOMAIN rules : /\ rules[i].user_id = user_id
                                          /\ rules[i].stock_symbol = parsed.symbol
                                          /\ rules[i].is_active}
        hit == IF parsed.id_type = "id" THEN byId ELSE bySymbol
        input == <<phone, identifier>>
    IN /\ UNCHANGED <<now, weekday, users, events, snapshots, redis, pricecache,
                      outbox, lastEval, call>>
       /\ IF user_id = 0
          THEN /\ UNCHANGED rules
               /\ last' = CommandOutcome("remove", "no_alerts", {}, input)
          ELSE IF hit = {}
          THEN /\ UNCHANGED rules
               /\ last' = CommandOutcome("remove", "not_found", {}, input)
          ELSE /\ rules' = Deactivated(rules, hit)
               /\ last' = CommandOutcome("remove", "removed", hit, input)

\* the mutant of the list query: the rules of every user are listed
ListedAlertsEveryUser(rs, user_id) ==
    {i \in DOMAIN rs : rs[i].is_active}

\* the query of _handle_list: the user's active rules
ListedAlerts(rs, user_id) ==
    {i \in DOMAIN rs : rs[i].user_id = user_id /\ rs[i].is_active}

\* AlertHandler._handle_list for the message "alert list"
HandleList(phone) ==
    LET user_id == GetUser(users, phone)
        alerts == ListedAlerts(rules, user_id)
        input == <<phone>>
    IN /\ UNCHANGED <<now, weekday, users, rules, events, snapshots, redis,
                      pricecache, outbox, lastEval, call>>
       /\ IF user_id = 0
          THEN last' = CommandOutcome("list", "no_user", {}, input)
          ELSE IF alerts = {}
          THEN last' = CommandOutcome("list", "no_alerts", {}, input)
          ELSE last' = CommandOutcome("list", "listed", alerts, input)

(***************************************************************************)
(* Monitoring tasks (app/tasks/stock_monitoring.py)                        *)
(***************************************************************************)
\* the mutant of the selection: is_active is not looked at
ActiveIdsEveryRule(rs) == SetToSeq(DOMAIN rs)

ActiveIds(rs) == SetToSeq({i \in DOMAIN rs : rs[i].is_active})

\* alert_type LIKE 'gap_down_%' OR LIKE 'gap_up_%'
IsGapType(alert_type) == alert_type.prefix \in {"gap_down_", "gap_up_"}

\* alert_type LIKE 'drop_%' OR LIKE 'spike_%' OR LIKE 'intraday_%'
IsWindowType(alert_type) ==
    alert_type.prefix \in {"drop_1h_", "drop_2h_", "spike_1h_", "spike_2h_",
                           "intraday_1h_", "intraday_2h_"}

\* the mutant of the due test: the interval is ignored
IsDueAlways(alert, t) == TRUE

\* the frequency filter of check_intraday_alerts
IsDue(alert, t) ==
    IF alert.last_checked_at = None THEN TRUE
    ELSE (t - alert.last_checked_at) >= alert.check_interval_seconds

\* the outcome of an alert task over the selected rules becomes the new state
RunAlertTask(op, ids, in) ==
    \E st \in {ProcessSymbols(TaskState, SymbolOrder(rules, ids), ids, in.remote,
                               snapshots, in.sendFails, in.commitFails, now)} :
       /\ rules' = st.rulesD
       /\ events' = st.events
       /\ outbox' = st.outbox
       /\ redis' = st.redis
       /\ pricecache' = st.pricecache
       /\ lastEval' = [i \in DOMAIN lastEval |->
                          IF i \in st.evaluated THEN now ELSE lastEval[i]]
       /\ last' = TaskOutcome(op, st, Range(ids))

\* the symbols of the rules `ids`
SymbolsOf(ids) == {rules[r].stock_symbol : r \in Range(ids)}

\* the remote provider is asked for a symbol only when both caches miss
NeedsRemote(symbol) ==
    /\ GetFromRedisCache(redis, symbol, now) = NoQuote
    /\ \/ GetFromDbCache(pricecache, symbol) = NoQuote
       \/ IsDbCacheStale(GetFromDbCache(pricecache, symbol), now)

\* the answers of the remote provider to a task that fetches `syms`
RemoteInputs(syms) ==
    {f \in [Symbols -> Remotes] :
        \A sym \in Symbols : (sym \notin syms \/ ~NeedsRemote(sym)) => f[sym] = RemoteFailure}

\* the quote a task gets for a symbol
QuoteOf(symbol, remote) ==
    get_current_price(redis, pricecache, symbol, remote[symbol], now).price_data

\* the rules for which the task calls the transport
Attempting(ids, remote) ==
    {r \in Range(ids) :
        LET q == QuoteOf(rules[r].stock_symbol, remote)
        IN /\ q # NoQuote
           /\ should_trigger(rules[r], q, snapshots, now)
           /\ can_send_notification(rules[r], now)}

\* the symbol groups whose commit the task reaches
Committing(ids, remote) == {sym \in SymbolsOf(ids) : QuoteOf(sym, remote) # NoQuote}

\* an alert task over the rules `ids`, for every behaviour of its environment:
\* the remote answers, the sends that raise and the group commits that raise
AlertTask(op, ids) ==
    \E remote \in RemoteInputs(SymbolsOf(ids)) :
    \E sendFails \in SUBSET Attempting(ids, remote) :
    \E commitFails \in SUBSET Committing(ids, remote) :
        RunAlertTask(op, ids, [remote |-> remote, sendFails |-> sendFails,
                               commitFails |-> commitFails])

Skipped(op) ==
    /\ last' = Outcome(op, "skipped", {})
    /\ UNCHANGED <<rules, events, outbox, redis, pricecache, lastEval, snapshots>>

NothingToDo(op) ==
    /\ last' = Outcome(op, "success", {})
    /\ UNCHANGED <<rules, events, outbox, redis, pricecache, lastEval, snapshots>>

\* the body of check_gap_down_alerts
check_gap_down_alerts ==
    /\ UNCHANGED <<now, weekday, users>>
    /\ IF ~is_market_open(weekday, now) THEN Skipped("GapTick")
       ELSE LET gap_alerts == SelectSeq(ActiveIds(rules),
                                        LAMBDA r : IsGapType(rules[r].alert_type))
            IN IF gap_alerts = <<>> THEN NothingToDo("GapTick")
               ELSE /\ AlertTask("GapTick", gap_alerts)
                    /\ UNCHANGED snapshots

\* check_gap_down_alerts, run to its end
GapTick == check_gap_down_alerts /\ UNCHANGED call

\* the body of check_intraday_alerts
check_intraday_alerts ==
    /\ UNCHANGED <<now, weekday, users>>
    /\ IF ~is_market_open(weekday, now) THEN Skipped("WindowTick")
       ELSE LET intraday_alerts == SelectSeq(ActiveIds(rules),
                                        LAMBDA r : IsWindowType(rules[r].alert_type))
                alerts_to_check == SelectSeq(intraday_alerts,
                                        LAMBDA r : IsDue(rules[r], now))
            IN IF alerts_to_check = <<>> THEN NothingToDo("WindowTick")
               ELSE /\ AlertTask("WindowTick", alerts_to_check)
                    /\ UNCHANGED snapshots

\* check_intraday_alerts, run to its end
WindowTick == check_intraday_alerts /\ UNCHANGED call

\* a row of intraday_price_snapshots
Snapshot(symbol, price_data, t) ==
    [stock_symbol |-> symbol, price |-> price_data.current_price, snapshot_time |-> t]

RECURSIVE CollectSnapshots(_, _, _, _)
\* "for symbol in unique_symbols" of collect_price_snapshots
CollectSnapshots(st, syms, remote, t) ==
    IF syms = <<>> THEN st
    ELSE LET symbol == Head(syms)
             got == get_current_price(st.redis, st.pricecache, symbol, remote[symbol], t)
             st0 == [st EXCEPT !.redis = got.redis, !.pricecache = got.pricecache,
                               !.fetches = Append(@, symbol)]
             st1 == IF got.price_data = NoQuote
                    THEN [st0 EXCEPT !.fetchFailed = @ \cup {symbol}]
                    ELSE [st0 EXCEPT !.snaps = Append(@, Snapshot(symbol, got.price_data, t))]
         IN CollectSnapshots(st1, Tail(syms), remote, t)

\* the mutant of the clean-up: a snapshot taken at the cutoff goes as well
PurgeUpTo(snaps, cutoff) ==
    SelectSeq(snaps, LAMBDA sn : ~(sn.snapshot_time <= cutoff))

\* the clean-up of collect_price_snapshots: snapshot_time < cleanup_cutoff
PurgeOlderThan(snaps, cutoff) ==
    SelectSeq(snaps, LAMBDA sn : ~(sn.snapshot_time < cutoff))

\* the mutant of the cutoff: one hour of snapshots is kept
CleanupCutoffOneHour(t) == t - HOUR

\* cleanup_cutoff = now - timedelta(hours=2)
CleanupCutoff(t) == t - SNAPSHOT_RETENTION

\* the body of collect_price_snapshots
collect_price_snapshots ==
    /\ UNCHANGED <<now, weekday, users, rules, events, outbox, lastEval>>
    /\ IF ~is_market_open(weekday, now)
       THEN /\ last' = Outcome("SnapshotTick", "skipped", {})
            /\ UNCHANGED <<snapshots, redis, pricecache>>
       ELSE LET unique_symbols == SymbolOrder(rules, ActiveIds(rules))
            IN IF unique_symbols = <<>>
               THEN /\ last' = Outcome("SnapshotTick", "success", {})
                    /\ UNCHANGED <<snapshots, redis, pricecache>>
               ELSE \E remote \in RemoteInputs(Range(unique_symbols)) :
                       LET st == CollectSnapshots(
                                    [snaps |-> snapshots, redis |-> redis,
                                     pricecache |-> pricecache, fetchFailed |-> {},
                                     fetches |-> <<>>],
                                    unique_symbols, remote, now)
                           cleanup_cutoff == CleanupCutoff(now)
                       IN /\ snapshots' = PurgeOlderThan(st.snaps, cleanup_cutoff)
                          /\ redis' = st.redis
                          /\ pricecache' = st.pricecache
                          /\ last' = [Outcome("SnapshotTick", "success", {})
                                        EXCEPT !.fetchFailed = st.fetchFailed,
                                               !.fetches = st.fetches]

\* collect_price_snapshots, run to its end
SnapshotTick == collect_price_snapshots /\ UNCHANGED call

(***************************************************************************)
(* The environment: time passes, and the fast cache drops expired keys     *)
(***************************************************************************)
ExpireKeys(rd, t) ==
    [sym \in Symbols |->
        IF rd[sym].expires_at # None /\ rd[sym].expires_at <= t THEN NoEntry
        ELSE rd[sym]]

Advance ==
    \E d \in TimeSteps :
        /\ now + d <= MaxTime
        /\ now' = now + d
        /\ redis' = ExpireKeys(redis, now + d)
        /\ last' = Outcome("Advance", "", {})
        /\ UNCHANGED <<weekday, users, rules, events, snapshots, pricecache,
                       outbox, lastEval, call>>

(***************************************************************************)
(* The monitoring system: one user's commands and the three tasks          *)
(***************************************************************************)
NoCall == [fn |-> "", arg |-> <<>>, result |-> <<>>]

Init ==
    /\ now = StartTime
    /\ weekday \in StartWeekdays
    /\ users = <<>>
    /\ rules = <<>>
    /\ events = <<>>
    /\ snapshots = <<>>
    /\ redis = [sym \in Symbols |-> NoEntry]
    /\ pricecache = <<>>
    /\ outbox = <<>>
    /\ lastEval = <<>>
    /\ last = Outcome("init", "", {})
    /\ call = NoCall

AlertAdd == \E sym \in {TCS} : HandleAdd("+911", sym, <<"-", "5">>)

AlertRemove == \E ident \in {TCS, <<"1">>} : HandleRemove("+911", ident)

\* the tables stay within the bounds of the model
Bounded ==
    /\ Len(rules') <= MaxRules
    /\ Len(events') <= MaxEvents
    /\ Len(snapshots') <= MaxSnapshots

Next ==
    \/ AlertAdd /\ Bounded
    \/ AlertRemove
    \/ SnapshotTick /\ Bounded
    \/ GapTick /\ Bounded
    \/ WindowTick /\ Bounded
    \/ Advance

Spec == Init /\ [][Next]_vars

(***************************************************************************)
(* The notification gate on its own: one rule whose last notification is   *)
(* any of a range of moments in the past, and one call of                  *)
(* can_send_notification on it.                                            *)
(***************************************************************************)
\* seconds since the rule's last notification
GateElapsed == {0, 1, 1799, 1800, 1801, 3599, 3600, 3601, 7200}

\* the moments of the call
GateInstants == {33300, 36000, 39600, 45000, 52200, 55800}

\* the last_triggered_at values of the rule at a call made at time t
GateLastTriggered(t) == {None} \cup {t - e : e \in GateElapsed}

InitGate ==
    /\ now \in GateInstants
    /\ weekday = 0
    /\ users = <<"+911">>
    /\ \E lt \in GateLastTriggered(now) :
          rules = <<[NewRule(1, TCS, AlertType("gap_down_", 5), -5, 1800)
                        EXCEPT !.last_triggered_at = lt]>>
    /\ events = <<>>
    /\ snapshots = <<>>
    /\ redis = [sym \in Symbols |-> NoEntry]
    /\ pricecache = <<>>
    /\ outbox = <<>>
    /\ lastEval = <<None>>
    /\ last = Outcome("init", "", {})
    /\ call = NoCall

\* notification_service.can_send_notification(alert) for the rule r
CallCanSend(r) ==
    /\ call = NoCall
    /\ call' = [fn |-> "can_send_notification", arg |-> <<r>>,
                result |-> <<can_send_notification(rules[r], now)>>]
    /\ UNCHANGED <<now, weekday, users, rules, events, snapshots, redis,
                   pricecache, outbox, lastEval, last>>

CanSendCall == \E r \in DOMAIN rules : CallCanSend(r)

NextGate == CanSendCall

SpecGate == InitGate /\ [][NextGate]_vars

(***************************************************************************)
(* The command system: two users sending alert add and alert remove with   *)
(* every supported threshold and some unsupported ones.                    *)
(***************************************************************************)
\* the decimal digits of a threshold magnitude below 100
DecimalOf(t) ==
    IF t >= 10 THEN <<Digits[(t \div 10) + 1], Digits[(t % 10) + 1]>>
    ELSE <<Digits[t + 1]>>

\* the threshold words of a drop and of a spike of magnitude t
DropToken(t) == <<"-">> \o DecimalOf(t)
SpikeToken(t) == <<"+">> \o DecimalOf(t)

\* the supported magnitudes, as the users type them
TypedMagnitudes == {5, 7, 8, 9, 10}

\* the threshold words of the command system
ThresholdArgs ==
    {DropToken(t) : t \in TypedMagnitudes} \cup {SpikeToken(t) : t \in TypedMagnitudes}
        \cup {<<"-", "5", "%">>, <<"8">>, <<"-", "6">>,
               <<"I", "n", "t", "r", "a", "d", "a", "y">>}

\* the symbol words of the command system
SymbolArgs == {TCS, <<"i", "n", "f", "y">>}

\* the identifiers of alert remove
IdentifierArgs == SymbolArgs \cup {<<"2">>, <<"4">>}

CmdAdd ==
    \E phone \in Phones : \E sym \in SymbolArgs : \E th \in ThresholdArgs :
        HandleAdd(phone, sym, th)

CmdRemove ==
    \E phone \in Phones : \E ident \in IdentifierArgs : HandleRemove(phone, ident)

InitCmd ==
    /\ Init
    /\ weekday = 0

NextCmd ==
    \/ CmdAdd /\ Len(rules') <= MaxCmdRules
    \/ CmdRemove

SpecCmd == InitCmd /\ [][NextCmd]_vars

(***************************************************************************)
(* Two symbols in one tick: a user who has added the drop triplet of 5     *)
(* for TCS and for INFY; a snapshot of each symbol was taken at 14:00 from *)
(* a quote of 100, and it is now 15:00.  Only the two alert tasks run.     *)
(***************************************************************************)

\* the quote both symbols had when the snapshots were taken
EarlierQuote ==
    [ok |-> TRUE, current_price |-> 100, previous_close |-> 100, open_price |-> 100]

InitPair ==
    /\ now = StartTime + HOUR
    /\ weekday = 0
    /\ users = <<"+911">>
    /\ rules = Triplet(1, TCS, -5) \o Triplet(1, INFY, -5)
    /\ events = <<>>
    /\ snapshots = <<Snapshot(TCS, EarlierQuote, StartTime),
                     Snapshot(INFY, EarlierQuote, StartTime)>>
    /\ redis = [sym \in Symbols |-> NoEntry]
    /\ pricecache = <<CacheEntry(TCS, EarlierQuote, StartTime),
                      CacheEntry(INFY, EarlierQuote, StartTime)>>
    /\ outbox = <<>>
    /\ lastEval = <<None, None, None, None, None, None>>
    /\ last = Outcome("Advance", "", {})
    /\ call = NoCall

NextPair ==
    \/ GapTick /\ Len(events') <= MaxPairEvents
    \/ WindowTick /\ Len(events') <= MaxPairEvents

SpecPair == InitPair /\ [][NextPair]_vars

(***************************************************************************)
(* The interval policy at work: one user adds and removes alerts of every  *)
(* supported magnitude for one symbol while the three tasks run, all at    *)
(* one moment of a trading day.                                            *)
(***************************************************************************)
\* the threshold words of this user
PolicyThresholdArgs ==
    {DropToken(t) : t \in TypedMagnitudes}
        \cup {SpikeToken(10), <<"i", "n", "t", "r", "a", "d", "a", "y">>, <<"-", "6">>}

PolicyAdd == \E th \in PolicyThresholdArgs : HandleAdd("+911", TCS, th)

InitPolicy ==
    /\ Init
    /\ weekday = 0

NextPolicy ==
    \/ PolicyAdd /\ Bounded
    \/ AlertRemove
    \/ SnapshotTick /\ Bounded
    \/ GapTick /\ Bounded
    \/ WindowTick /\ Bounded

SpecPolicy == InitPolicy /\ [][NextPolicy]_vars

(***************************************************************************)
(* The registry of two users: alert add and alert remove, by id and by     *)
(* symbol, for two symbols, with room for two triplets.                    *)
(***************************************************************************)
\* the threshold words of the two users
RegThresholdArgs == {DropToken(5), SpikeToken(10)}

\* the identifiers of alert remove: the symbols, two ids, and an id no rule has
RegIdentifierArgs == SymbolArgs \cup {<<"2">>, <<"4">>, <<"9">>}

RegAdd ==
    \E phone \in Phones : \E sym \in SymbolArgs : \E th \in RegThresholdArgs :
        HandleAdd(phone, sym, th)

RegRemove ==
    \E phone \in Phones : \E ident \in RegIdentifierArgs : HandleRemove(phone, ident)

RegList == \E phone \in Phones : HandleList(phone)

InitReg ==
    /\ Init
    /\ weekday = 0

NextReg ==
    \/ RegAdd /\ Len(rules') <= MaxRegRules
    \/ RegRemove
    \/ RegList

SpecReg == InitReg /\ [][NextReg]_vars

(***************************************************************************)
(* The evaluator on its own: one rule of any kind, a table of snapshots,   *)
(* and one call of should_trigger on the rule with any of a range of       *)
(* quotes.  The prices are those of the examples of alert_evaluator.py and *)
(* their neighbours.                                                       *)
(***************************************************************************)
\* the moment of the call
EvalNow == 12 * HOUR

\* the alert types of drops, of rises, and two the dispatch does not know:
\* "drop_8" and "intraday_1h", the types parse_alert_threshold names
EvalDownKinds == {"gap_down_", "drop_1h_", "drop_2h_", "intraday_1h_", "intraday_2h_"}
EvalUpKinds == {"gap_up_", "spike_1h_", "spike_2h_"}
EvalOtherKinds == {"drop_", "intraday_1h"}

\* a rule of user 1 for TCS of the given type and threshold
EvalRule(prefix, threshold_percent) ==
    NewRule(1, TCS, AlertType(prefix, Abs(threshold_percent)), threshold_percent,
            add_check_interval(Abs(threshold_percent)))

EvalRules ==
    {EvalRule(k, th) : k \in EvalDownKinds \cup EvalOtherKinds, th \in {-8, -9}}
        \cup {EvalRule(k, th) : k \in EvalUpKinds, th \in {8, 9}}

\* a snapshot of a symbol, `ago` seconds before the call
SnapshotAgo(symbol, price, ago) ==
    [stock_symbol |-> symbol, price |-> price, snapshot_time |-> EvalNow - ago]

\* the snapshot tables of the call, each in the order of insertion
EvalTables ==
    { <<>>,
      <<SnapshotAgo(TCS, 3500, 3600), SnapshotAgo(TCS, 3450, 1800), SnapshotAgo(TCS, 3400, 600)>>,
      <<SnapshotAgo(TCS, 3200, 3600), SnapshotAgo(TCS, 3250, 1800), SnapshotAgo(TCS, 3300, 0)>>,
      <<SnapshotAgo(TCS, 3500, 3601), SnapshotAgo(TCS, 3400, 1800)>>,
      <<SnapshotAgo(TCS, 3500, 7200), SnapshotAgo(TCS, 3400, 1800)>>,
      <<SnapshotAgo(TCS, 3500, 7201), SnapshotAgo(TCS, 3400, 1800)>>,
      <<SnapshotAgo(TCS, 3500, 7201)>>,
      <<SnapshotAgo(INFY, 3500, 1800), SnapshotAgo(TCS, 3400, 1800)>>,
      <<SnapshotAgo(INFY, 3500, 1800)>>,
      <<SnapshotAgo(TCS, 3200, 3601), SnapshotAgo(TCS, 3300, 1800)>>,
      <<SnapshotAgo(TCS, 3200, 7200), SnapshotAgo(TCS, 3300, 1800)>>,
      <<SnapshotAgo(TCS, 3200, 7201), SnapshotAgo(TCS, 3300, 1800)>>,
      <<SnapshotAgo(INFY, 3200, 1800), SnapshotAgo(TCS, 3300, 1800)>> }

\* the quotes of the call; 0 is a missing field
EvalQuotes ==
    {[current_price |-> c, previous_close |-> p, open_price |-> o, timestamp |-> EvalNow] :
        c \in {0, 3220, 3221, 3455, 3456},
        p \in {0, 3200, 3500},
        o \in {0, 3220, 3221, 3455, 3456}}

InitEval ==
    /\ now = EvalNow
    /\ weekday = 0
    /\ users = <<"+911">>
    /\ \E rule \in EvalRules : rules = <<rule>>
    /\ events = <<>>
    /\ snapshots \in EvalTables
    /\ redis = [sym \in Symbols |-> NoEntry]
    /\ pricecache = <<>>
    /\ outbox = <<>>
    /\ lastEval = <<None>>
    /\ last = Outcome("init", "", {})
    /\ call = NoCall

\* alert_evaluator.should_trigger(alert, price_data) for the rule r
CallShouldTrigger(r, price_data) ==
    /\ call = NoCall
    /\ call' = [fn |-> "should_trigger", arg |-> <<r, price_data>>,
                result |-> <<should_trigger(rules[r], price_data, snapshots, now)>>]
    /\ UNCHANGED <<now, weekday, users, rules, events, snapshots, redis,
                   pricecache, outbox, lastEval, last>>

ShouldTriggerCall ==
    \E r \in DOMAIN rules : \E price_data \in EvalQuotes : CallShouldTrigger(r, price_data)

NextEval == ShouldTriggerCall

SpecEval == InitEval /\ [][NextEval]_vars

(***************************************************************************)
(* The price source on its own: get_current_price is called for a symbol   *)
(* again and again while seconds pass, so that the entries of both caches  *)
(* are met fresh, at the very end of their time to live, and stale.        *)
(***************************************************************************)
\* what the remote provider may answer in the price-source system
QuoteRemotes ==
    {RemoteFailure,
     [ok |-> TRUE, current_price |-> 100, previous_close |-> 100, open_price |-> 100],
     [ok |-> TRUE, current_price |-> 101, previous_close |-> 100, open_price |-> 100]}

\* the seconds between two calls
QuoteSteps == {59, 60, 181}

\* stock_service.get_current_price(symbol), the remote answering `remote` if asked
CallGetCurrentPrice(symbol, remote) ==
    \E got \in {get_current_price(redis, pricecache, symbol, remote, now)} :
        /\ redis' = got.redis
        /\ pricecache' = got.pricecache
        /\ call' = [fn |-> "get_current_price", arg |-> <<symbol, remote>>,
                    result |-> <<got.price_data>>]
        /\ UNCHANGED <<now, weekday, users, rules, events, snapshots, outbox,
                       lastEval, last>>

GetQuote == \E symbol \in Symbols : \E remote \in QuoteRemotes : CallGetCurrentPrice(symbol, remote)

\* seconds pass; the fast cache drops the keys whose time to live ran out
Elapse ==
    \E d \in QuoteSteps :
        /\ now + d <= StartTime + MaxQuoteAge
        /\ now' = now + d
        /\ redis' = ExpireKeys(redis, now + d)
        /\ UNCHANGED <<weekday, users, rules, events, snapshots, pricecache,
                       outbox, lastEval, last, call>>

InitQuote ==
    /\ Init
    /\ weekday = 0

NextQuote ==
    \/ GetQuote
    \/ Elapse

SpecQuote == InitQuote /\ [][NextQuote]_vars

(***************************************************************************)
(* The price source over a longer time: the same calls, the clock running  *)
(* past the sum of the two times to live.                                  *)
(***************************************************************************)
\* seconds pass; the fast cache drops the keys whose time to live ran out
ElapseStale ==
    \E d \in QuoteSteps :
        /\ now + d <= StartTime + MaxStaleAge
        /\ now' = now + d
        /\ redis' = ExpireKeys(redis, now + d)
        /\ UNCHANGED <<weekday, users, rules, events, snapshots, pricecache,
                       outbox, lastEval, last, call>>

NextStale ==
    \/ GetQuote
    \/ ElapseStale

SpecStale == InitQuote /\ [][NextStale]_vars

(***************************************************************************)
(* The clean-up of the snapshots on its own: rows of any age are added to  *)
(* the table and the clean-up is run with a cutoff, again and again.       *)
(***************************************************************************)
\* the moment the ages of the rows are counted from
PurgeNow == StartTime

\* the ages of the rows: new, an hour, and around the two retention hours
PurgeAges ==
    {0, HOUR, SNAPSHOT_RETENTION - 1, SNAPSHOT_RETENTION, SNAPSHOT_RETENTION + 1}

\* the cutoffs the clean-up is run with
PurgeCutoffs == {PurgeNow - SNAPSHOT_RETENTION, PurgeNow - HOUR}

\* db.add(snapshot) of a row of the given age
AddSnapshot ==
    \E symbol \in {TCS} : \E age \in PurgeAges :
        /\ Len(snapshots) < MaxPurgeRows
        /\ snapshots' = Append(snapshots,
                               Snapshot(symbol, EarlierQuote, PurgeNow - age))
        /\ call' = [fn |-> "add", arg |-> <<symbol, age>>, result |-> <<>>]
        /\ UNCHANGED <<now, weekday, users, rules, events, redis, pricecache,
                       outbox, lastEval, last>>

\* query(IntradayPriceSnapshot).filter(snapshot_time < cutoff).delete(),
\* which answers the number of rows deleted
CallPurge(cutoff) ==
    /\ snapshots' = PurgeOlderThan(snapshots, cutoff)
    /\ call' = [fn |-> "purge", arg |-> <<cutoff>>,
                result |-> <<Len(snapshots) - Len(PurgeOlderThan(snapshots, cutoff))>>]
    /\ UNCHANGED <<now, weekday, users, rules, events, redis, pricecache,
                   outbox, lastEval, last>>

Purge == \E cutoff \in PurgeCutoffs : CallPurge(cutoff)

InitPurge ==
    /\ Init
    /\ weekday = 0

NextPurge ==
    \/ AddSnapshot
    \/ Purge

SpecPurge == InitPurge /\ [][NextPurge]_vars

(***************************************************************************)
(* The market clock on its own: is_market_open and get_market_phase are    *)
(* asked at the ends of every session of every day of the week.            *)
(***************************************************************************)
\* Monday is 0 and Sunday 6, as datetime.weekday() counts
Weekdays == 0 .. 6

\* the seconds of the day the clock stops at: midnight, the four session
\* boundaries with the second before and after each, and noon
ClockInstants ==
    {0, 12 * HOUR, 24 * HOUR - 1} \cup
    UNION {{b - 1, b, b + 1} : b \in {PRE_MARKET_OPEN, MARKET_OPEN_TIME,
                                      MARKET_CLOSE_TIME, POST_MARKET_CLOSE}}

\* is_market_open() at the instant of the clock
CallIsMarketOpen ==
    /\ call' = [fn |-> "is_market_open", arg |-> <<weekday, now>>,
                result |-> <<is_market_open(weekday, now)>>]
    /\ UNCHANGED <<now, weekday, dbvars, lastEval, last>>

\* get_market_phase() at the instant of the clock
CallGetMarketPhase ==
    /\ call' = [fn |-> "get_market_phase", arg |-> <<weekday, now>>,
                result |-> <<get_market_phase(weekday, now)>>]
    /\ UNCHANGED <<now, weekday, dbvars, lastEval, last>>

\* the clock moves on to its next stop, or to midnight of the next day
ClockTick ==
    /\ IF \E t \in ClockInstants : t > now
       THEN /\ now' = SetMin({t \in ClockInstants : t > now})
            /\ weekday' = weekday
       ELSE /\ now' = 0
            /\ weekday' = (weekday + 1) % 7
    /\ UNCHANGED <<dbvars, lastEval, last, call>>

InitClock ==
    /\ now = 0
    /\ weekday \in Weekdays
    /\ users = <<>>
    /\ rules = <<>>
    /\ events = <<>>
    /\ snapshots = <<>>
    /\ redis = [sym \in Symbols |-> NoEntry]
    /\ pricecache = <<>>
    /\ outbox = <<>>
    /\ lastEval = <<>>
    /\ last = Outcome("init", "", {})
    /\ call = NoCall

NextClock ==
    \/ CallIsMarketOpen
    \/ CallGetMarketPhase
    \/ ClockTick

SpecClock == InitClock /\ [][NextClock]_vars

(***************************************************************************)
(* The threshold parser on its own: parse_alert_threshold is given every   *)
(* magnitude up to MaxMagnitude with and without a sign, a percent sign    *)
(* and a decimal part, and the legacy keyword.                             *)
(***************************************************************************)
ParseWords ==
    {pre \o DecimalOf(t) \o post :
        pre \in {<<>>, <<"-">>, <<"+">>}, t \in 1 .. MaxMagnitude,
        post \in {<<>>, <<"%">>, <<".", "0">>}}
      \cup {<<"i", "n", "t", "r", "a", "d", "a", "y">>, <<"-">>, <<>>}

\* command_parser.parse_alert_threshold(threshold_str)
CallParseAlertThreshold(threshold_str) ==
    /\ call' = [fn |-> "parse_alert_threshold", arg |-> <<threshold_str>>,
                result |-> <<parse_alert_threshold(threshold_str)>>]
    /\ UNCHANGED <<now, weekday, dbvars, lastEval, last>>

ParseThreshold == \E threshold_str \in ParseWords : CallParseAlertThreshold(threshold_str)

InitParse ==
    /\ Init
    /\ weekday = 0

NextParse == ParseThreshold

SpecParse == InitParse /\ [][NextParse]_vars

(***************************************************************************)
(* The snapshots over three hours: a user holds the drop triplet of 5 for  *)
(* TCS at 10:00:00 of a Monday and may remove it; the snapshot task runs,  *)
(* and the clock moves by an hour or by an hour and a second, so that      *)
(* snapshots are met exactly two hours old and a second older.             *)
(***************************************************************************)
SnapStart == 10 * HOUR

SnapSteps == {HOUR, HOUR + 1}

SnapRemove == \E ident \in {TCS} : HandleRemove("+911", ident)

SnapAdvance ==
    \E d \in SnapSteps :
        /\ now + d <= SnapStart + MaxSnapHours * HOUR + MaxSnapHours
        /\ now' = now + d
        /\ redis' = ExpireKeys(redis, now + d)
        /\ last' = Outcome("Advance", "", {})
        /\ UNCHANGED <<weekday, users, rules, events, snapshots, pricecache,
                       outbox, lastEval, call>>

InitSnap ==
    /\ now = SnapStart
    /\ weekday = 0
    /\ users = <<"+911">>
    /\ rules = Triplet(1, TCS, -5)
    /\ events = <<>>
    /\ snapshots = <<>>
    /\ redis = [sym \in Symbols |-> NoEntry]
    /\ pricecache = <<>>
    /\ outbox = <<>>
    /\ lastEval = <<None, None, None>>
    /\ last = Outcome("init", "", {})
    /\ call = NoCall

NextSnap ==
    \/ SnapshotTick /\ Len(snapshots') <= MaxSnapRows
    \/ SnapRemove
    \/ SnapAdvance

SpecSnap == InitSnap /\ [][NextSnap]_vars

(***************************************************************************)
(* Batching: the two-symbol system at 15:00:00 with the three tasks, the   *)
(* user removing the alerts of INFY in between.                            *)
(***************************************************************************)
BatchRemove == HandleRemove("+911", INFY)

NextBatch ==
    \/ GapTick /\ Len(events') <= MaxBatchEvents
    \/ WindowTick /\ Len(events') <= MaxBatchEvents
    \/ SnapshotTick /\ Len(snapshots') <= MaxBatchRows
    \/ BatchRemove

SpecBatch == InitPair /\ [][NextBatch]_vars

(***************************************************************************)
(* The retry of a task: the scheduler publishes one task message at a      *)
(* time; the worker runs it when it is due; the store may be down when the *)
(* task starts, which raises out of the task's outer try.  The message in  *)
(* flight is `call`: the task, request.retries and the time it is due.     *)
(* The system is followed up to the first run that reaches its end.        *)
(***************************************************************************)
\* the three tasks, by the names of their outcomes
TaskNames == {"SnapshotTick", "GapTick", "WindowTick"}

\* a task message: the task, request.retries, the time it is due
TaskMessage(op, retries, eta) == [fn |-> op, arg |-> <<retries, eta>>, result |-> <<>>]

\* the mutant of the countdown: one minute for every task
RetryCountdownMinute(op) == 60

\* the countdown of self.retry in the except clause of each task
RetryCountdown(op) == IF op = "GapTick" THEN 300 ELSE 60

\* the mutant of Task.retry: the number of retries is not looked at
RetryUnbounded(op, retries, t) == TaskMessage(op, retries + 1, t + RetryCountdown(op))

\* raise self.retry(exc=e, countdown=...): the message of the next attempt,
\* or no message once request.retries has reached max_retries
Retry(op, retries, t) ==
    IF retries + 1 > max_retries THEN NoCall
    ELSE TaskMessage(op, retries + 1, t + RetryCountdown(op))

\* the beat schedule publishes a task, due at once
BeatPublish ==
    \E op \in TaskNames :
        /\ call = NoCall
        /\ last.status \notin {"success", "skipped"}
        /\ now + max_retries * RetryCountdown(op) <= SnapStart + MaxRetryClock
        /\ call' = TaskMessage(op, 0, now)
        /\ UNCHANGED <<now, weekday, users, rules, events, snapshots, redis,
                       pricecache, outbox, lastEval, last>>

\* the task raises before its first query is answered: except Exception,
\* db.rollback(), raise self.retry(...)
TaskFails ==
    /\ call' = Retry(call.fn, call.arg[1], now)
    /\ last' = Outcome(call.fn, IF call' = NoCall THEN "failure" ELSE "retry", {})
    /\ UNCHANGED <<now, weekday, users, rules, events, snapshots, redis,
                   pricecache, outbox, lastEval>>

\* the task runs to its end
TaskRuns ==
    /\ call' = NoCall
    /\ IF call.fn = "SnapshotTick" THEN collect_price_snapshots
       ELSE IF call.fn = "GapTick" THEN check_gap_down_alerts
       ELSE check_intraday_alerts
    /\ Len(events') <= MaxRetryEvents
    /\ Len(snapshots') <= MaxRetryRows

\* the worker runs the message that is due
ExecuteTask ==
    /\ call.fn \in TaskNames
    /\ call.arg[2] <= now
    /\ (TaskFails \/ TaskRuns)

\* a minute passes; a message that is due is run before
RetryAdvance ==
    /\ call.fn \in TaskNames => now < call.arg[2]
    /\ now + 60 <= SnapStart + MaxRetryClock
    /\ now' = now + 60
    /\ redis' = ExpireKeys(redis, now + 60)
    /\ UNCHANGED <<weekday, users, rules, events, snapshots, pricecache,
                   outbox, lastEval, last, call>>

NextRetry ==
    \/ BeatPublish
    \/ ExecuteTask
    \/ RetryAdvance

SpecRetry == InitSnap /\ [][NextRetry]_vars

\* the worker and the clock do not stop for ever
SpecRetryFair == SpecRetry /\ WF_vars(ExecuteTask) /\ WF_vars(RetryAdvance)

(***************************************************************************)
(* Delivery under a failing transport: one user with the drop triplet of 5 *)
(* for one symbol, on an open market; every quarter of an hour the gap     *)
(* task and then the window task run.  The quote always comes and always   *)
(* shows the drop, against a snapshot of the earlier price, and no group   *)
(* commit fails; the transport may raise, but not in the last half hour.   *)
(***************************************************************************)
\* the seconds between two rounds of the tasks
LiveStep == HOUR \div 4

\* what the environment of this system does to a task
LiveEnv ==
    /\ last'.fetchFailed = {}
    /\ last'.groupFailed = {}
    /\ redis'[TCS].quote.current_price = 95
    /\ redis'[TCS].quote.open_price = 95
    /\ last'.sendFailed # {} => now + 2 * LiveStep <= SnapStart + MaxLiveClock

LiveGap ==
    /\ last.op \in {"init", "Advance"}
    /\ GapTick
    /\ LiveEnv

LiveWindow ==
    /\ last.op = "GapTick"
    /\ WindowTick
    /\ LiveEnv

\* a quarter of an hour passes once both tasks have run
LiveAdvance ==
    /\ last.op = "WindowTick"
    /\ now + LiveStep <= SnapStart + MaxLiveClock
    /\ now' = now + LiveStep
    /\ redis' = ExpireKeys(redis, now + LiveStep)
    /\ last' = Outcome("Advance", "", {})
    /\ UNCHANGED <<weekday, users, rules, events, snapshots, pricecache,
                   outbox, lastEval, call>>

InitLive ==
    /\ now = SnapStart
    /\ weekday = 0
    /\ users = <<"+911">>
    /\ rules = Triplet(1, TCS, -5)
    /\ events = <<>>
    /\ snapshots = <<Snapshot(TCS, EarlierQuote, SnapStart)>>
    /\ redis = [sym \in Symbols |-> NoEntry]
    /\ pricecache = <<>>
    /\ outbox = <<>>
    /\ lastEval = <<None, None, None>>
    /\ last = Outcome("init", "", {})
    /\ call = NoCall

NextLive ==
    \/ LiveGap
    \/ LiveWindow
    \/ LiveAdvance

SpecLive == InitLive /\ [][NextLive]_vars

\* the tasks keep running and the clock keeps going
SpecLiveFair ==
    SpecLive /\ WF_vars(LiveGap) /\ WF_vars(LiveWindow) /\ WF_vars(LiveAdvance)

(***************************************************************************)
(* Overlapping invocations of check_intraday_alerts: one user with the     *)
(* 1-hour rule of a drop triplet of 5, on an open market, and a worker that *)
(* runs several invocations of the task at once.  An invocation is followed *)
(* statement by statement: the query, the frequency filter and the quote;  *)
(* for every rule the evaluation with the gate, and the delivery; the      *)
(* commit that ends the symbol group.  Each invocation has its own session: *)
(* `rows` are the rule rows as the session holds them and `base` what the  *)
(* store held when the session read or wrote them last, and a commit       *)
(* writes the columns the session changed.  app/database.py is not among   *)
(* the sources, so it is open whether a commit expires the rows of the     *)
(* session: the gate reads a rule either as the session holds it or as the *)
(* store holds it now.  The invocations in progress are held in call.arg.  *)
(* No group commit fails here, and an invocation ends within the time      *)
(* limit of a task.                                                        *)
(***************************************************************************)
\* the seconds between two instants of this system
OverlapStep == task_time_limit

\* the session of an invocation that selected `ids` at the instant t
Session(ids, rows, price_data, t) ==
    [ids |-> ids, rows |-> rows, base |-> rows, k |-> 1, pc |-> "eval",
     price_data |-> price_data, started |-> t]

\* "for alert in alerts": on to the next rule, or to the commit of the group
NextAlert(s) ==
    [s EXCEPT !.k = s.k + 1,
              !.pc = IF s.k + 1 > Len(s.ids) THEN "commit" ELSE "eval"]

\* db.commit(): the UPDATE of the columns the session changed
Flush(store, base, rows) ==
    [r \in DOMAIN store |->
        [f \in DOMAIN store[r] |->
            IF rows[r][f] # base[r][f] THEN rows[r][f] ELSE store[r][f]]]

\* the rows a session may find when it reads rule r
ReadRows(s, r) == {s.rows[r], rules[r]}

\* the query, the frequency filter and the quote of the symbol group
OverlapBegin ==
    /\ Len(call.arg) < MaxInvocations
    /\ UNCHANGED <<now, weekday, users>>
    /\ IF ~is_market_open(weekday, now) THEN Skipped("WindowTick") /\ UNCHANGED call
       ELSE LET intraday_alerts == SelectSeq(ActiveIds(rules),
                                        LAMBDA r : IsWindowType(rules[r].alert_type))
                alerts_to_check == SelectSeq(intraday_alerts,
                                        LAMBDA r : IsDue(rules[r], now))
            IN IF alerts_to_check = <<>>
               THEN NothingToDo("WindowTick") /\ UNCHANGED call
               ELSE \E remote \in RemoteInputs(SymbolsOf(alerts_to_check)) :
                    \E got \in {get_current_price(redis, pricecache, TCS, remote[TCS], now)} :
                       /\ redis' = got.redis
                       /\ pricecache' = got.pricecache
                       /\ call' = IF got.price_data = NoQuote THEN call
                                  ELSE [call EXCEPT !.arg = Append(@,
                                           Session(alerts_to_check, rules,
                                                   got.price_data, now))]
                       /\ last' = Outcome("OverlapBegin",
                                          IF got.price_data = NoQuote THEN "no_price"
                                          ELSE "loaded", Range(alerts_to_check))
                       /\ UNCHANGED <<rules, events, outbox, snapshots, lastEval>>

\* evaluator.should_trigger(alert, price_data) and
\* notifier.can_send_notification(alert) of invocation i
OverlapGate(i) ==
    LET s == call.arg[i]
        r == s.ids[s.k]
    IN /\ s.pc = "eval"
       /\ \E alert \in ReadRows(s, r) :
             LET read == [s EXCEPT !.rows[r] = alert, !.base[r] = alert]
                 passed == /\ should_trigger(alert, s.price_data, snapshots, now)
                           /\ can_send_notification(alert, now)
             IN /\ call' = [call EXCEPT !.arg[i] =
                              IF passed THEN [read EXCEPT !.pc = "send"]
                              ELSE NextAlert([read EXCEPT !.rows[r].last_checked_at = now])]
                /\ last' = Outcome("OverlapGate",
                                   IF passed THEN "passed" ELSE "held", {r})
       /\ UNCHANGED <<now, weekday, users, rules, events, snapshots, redis,
                      pricecache, outbox, lastEval>>

\* notifier.send_alert_notification(alert, price_data) of invocation i, with
\* its commit, and alert.last_checked_at = datetime.utcnow()
OverlapDeliver(i) ==
    LET s == call.arg[i]
        r == s.ids[s.k]
    IN /\ s.pc = "send"
       /\ \E transportOk \in BOOLEAN :
          \E st \in {send_alert_notification([TaskState EXCEPT !.rulesS = s.rows],
                                             r, s.price_data, transportOk, now)} :
             /\ events' = st.events
             /\ outbox' = st.outbox
             /\ rules' = Flush(rules, s.base, st.rulesS)
             /\ call' = [call EXCEPT !.arg[i] =
                            NextAlert([s EXCEPT !.rows = MarkChecked(st, r, now).rulesS,
                                                !.base = st.rulesS])]
             /\ last' = Outcome("OverlapDeliver",
                                IF transportOk THEN "sent" ELSE "failed", {r})
       /\ UNCHANGED <<now, weekday, users, snapshots, redis, pricecache, lastEval>>

\* the db.commit() that ends the symbol group, and the end of invocation i
OverlapCommit(i) ==
    LET s == call.arg[i]
    IN /\ s.pc = "commit"
       /\ rules' = Flush(rules, s.base, s.rows)
       /\ call' = [call EXCEPT !.arg =
                      SubSeq(@, 1, i - 1) \o SubSeq(@, i + 1, Len(@))]
       /\ lastEval' = [j \in DOMAIN lastEval |->
                          IF j \in Range(s.ids) THEN now ELSE lastEval[j]]
       /\ last' = Outcome("WindowTick", "success", Range(s.ids))
       /\ UNCHANGED <<now, weekday, users, events, snapshots, redis, pricecache,
                      outbox>>

\* time passes; no invocation outlives the time limit of a task
OverlapElapse ==
    /\ now + OverlapStep <= SnapStart + MaxOverlapClock
    /\ \A i \in DOMAIN call.arg :
          now + OverlapStep - call.arg[i].started <= task_time_limit
    /\ now' = now + OverlapStep
    /\ redis' = ExpireKeys(redis, now + OverlapStep)
    /\ last' = Outcome("Advance", "", {})
    /\ UNCHANGED <<weekday, users, rules, events, snapshots, pricecache,
                   outbox, lastEval, call>>

OverlapGates == \E i \in DOMAIN call.arg : OverlapGate(i)

OverlapDelivers == \E i \in DOMAIN call.arg : OverlapDeliver(i)

OverlapCommits == \E i \in DOMAIN call.arg : OverlapCommit(i)

NextOverlap ==
    \/ OverlapBegin
    \/ OverlapGates
    \/ OverlapDelivers
    \/ OverlapCommits
    \/ OverlapElapse

\* the triplet after "alert remove 3": the 1-hour rule is the one window rule
InitOverlap ==
    /\ now = SnapStart
    /\ weekday = 0
    /\ users = <<"+911">>
    /\ rules = [Triplet(1, TCS, -5) EXCEPT ![3].is_active = FALSE]
    /\ events = <<>>
    /\ snapshots = <<Snapshot(TCS, EarlierQuote, SnapStart)>>
    /\ redis = [sym \in Symbols |-> NoEntry]
    /\ pricecache = <<>>
    /\ outbox = <<>>
    /\ lastEval = <<None, None, None>>
    /\ last = Outcome("init", "", {})
    /\ call = NoCall

SpecOverlap == InitOverlap /\ [][NextOverlap]_vars

(***************************************************************************)
(* Properties of the monitoring system                                     *)
(***************************************************************************)
\* the operations that are ticks of the two alert tasks
AlertTicks == {"GapTick", "WindowTick"}

\* the rows a step appended to alert_events
NewEvents == SubSeq(events', Len(events) + 1, Len(events'))

\* the rows among `evs` that belong to rule r
EventsOf(evs, r) == SelectSeq(evs, LAMBDA e : e.alert_rule_id = r)

\* a window rule that the stored fields make due at time t, in the claim's words
DueAt(rule, t) ==
    \/ rule.last_checked_at = None
    \/ t - rule.last_checked_at >= rule.check_interval_seconds

\* a WindowTick evaluates only active window rules that are due
OnlyDueEvaluated ==
    last'.op = "WindowTick" =>
        \A r \in last'.evaluated :
            /\ r \in DOMAIN rules
            /\ rules[r].is_active
            /\ IsWindowType(rules[r].alert_type)
            /\ DueAt(rules[r], now)

\* a WindowTick evaluates a rule no sooner than its interval after its latest evaluation
SpacedFromLatestEvaluation ==
    last'.op = "WindowTick" =>
        \A r \in last'.evaluated :
            lastEval[r] # None => now - lastEval[r] >= rules[r].check_interval_seconds

\* the same, for a latest evaluation whose last_checked_at was committed
SpacedFromCommittedEvaluation ==
    last'.op = "WindowTick" =>
        \A r \in last'.evaluated :
            (lastEval[r] # None /\ rules[r].last_checked_at = lastEval[r])
                => now - lastEval[r] >= rules[r].check_interval_seconds

SentPair(i, j) ==
    /\ i < j
    /\ events[i].alert_rule_id = events[j].alert_rule_id
    /\ events[i].notification_sent
    /\ events[j].notification_sent

\* C2: two successful notifications (alert_events rows with
\* notification_sent) for the same rule are never less than the cooldown
\* period apart, however often the rule is evaluated and triggers in between.
C2_CooldownBetweenNotifications ==
    \A i, j \in DOMAIN events :
        SentPair(i, j) =>
            events[j].triggered_at - events[i].triggered_at >= ALERT_COOLDOWN_PERIOD

\* a rule has been notified twice
C2_Witness == \E i, j \in DOMAIN events : SentPair(i, j)

\* seconds since the last notification of rule r, None if there was none
ElapsedSinceTriggered(r) ==
    IF rules[r].last_triggered_at = None THEN None
    ELSE now - rules[r].last_triggered_at

\* the answer of the call of can_send_notification in this step
CanSendAnswer == call'.result[1]

\* what the contract of canSend says for rule r
CanSendContract(r) ==
    LET e == ElapsedSinceTriggered(r)
    IN /\ CanSendAnswer = (e = None \/ e >= ALERT_COOLDOWN_PERIOD)
       /\ e = ALERT_COOLDOWN_PERIOD => CanSendAnswer = TRUE
       /\ e = 1800 => CanSendAnswer = FALSE
       /\ e = 3601 => CanSendAnswer = TRUE

\* C3: can_send_notification answers true exactly when last_triggered_at
\* is NULL or now - last_triggered_at >= the cooldown period; the boundary
\* is inclusive, 1800 s elapsed gives false, 3601 s gives true; the call
\* changes no state.
C3_CanSend ==
    [][call'.fn = "can_send_notification" =>
          /\ CanSendContract(call'.arg[1])
          /\ UNCHANGED dbvars]_vars

\* the gate has answered true exactly at the boundary
C3_Witness ==
    /\ call.fn = "can_send_notification"
    /\ ElapsedSinceTriggered(call.arg[1]) = ALERT_COOLDOWN_PERIOD
    /\ call.result = <<TRUE>>

\* the messages the transport accepted in this step, for rule r
NewMessagesOf(r) ==
    {k \in DOMAIN outbox' : k \notin DOMAIN outbox /\ outbox'[k].alert_id = r}

\* a successful delivery for rule r in this step: one event, sent, with the
\* transport's id; last_triggered_at is the time of the step; still active
DeliveredRight(r) ==
    LET new == EventsOf(NewEvents, r)
    IN /\ Len(new) = 1
       /\ new[1].notification_sent
       /\ NewMessagesOf(r) = {new[1].notification_sid}
       /\ rules'[r].last_triggered_at = now
       /\ rules[r].is_active
       /\ rules'[r].is_active

\* is_active changes only for the rules a remove command names
ActiveOnlyByRemove ==
    \A r \in DOMAIN rules :
        rules'[r].is_active # rules[r].is_active =>
            /\ last'.op = "remove"
            /\ r \in last'.ids
            /\ ~rules'[r].is_active

FailedRight(r) ==
    LET new == EventsOf(NewEvents, r)
    IN /\ Len(new) = 1
       /\ ~new[1].notification_sent
       /\ new[1].error_message
       /\ r \notin last'.delivered
       /\ NewMessagesOf(r) = {}
       /\ rules'[r].last_triggered_at = rules[r].last_triggered_at
       /\ rules'[r].is_active = rules[r].is_active
       /\ can_send_notification(rules'[r], now) = can_send_notification(rules[r], now)

AppendOnly ==
    /\ Len(events') >= Len(events)
    /\ SubSeq(events', 1, Len(events)) = events

\* a tick adds one row per delivery attempt, none for a rule that did not
\* trigger or was blocked by the cooldown; nothing else adds a row
OneRowPerAttempt ==
    IF last'.op \in AlertTicks
    THEN LET attempts == last'.delivered \cup last'.sendFailed
         IN /\ Len(NewEvents) = Cardinality(attempts)
            /\ \A r \in attempts : Len(EventsOf(NewEvents, r)) = 1
            /\ \A r \in last'.blocked : EventsOf(NewEvents, r) = <<>>
            /\ \A r \in last'.evaluated \ attempts : EventsOf(NewEvents, r) = <<>>
    ELSE NewEvents = <<>>

EvaluatedAndCommitted ==
    {r \in last'.evaluated : rules[r].stock_symbol \notin last'.groupFailed}

FailedSymbols == last'.fetchFailed \cup last'.groupFailed

\* a skipped symbol's rules keep last_checked_at and last_triggered_at, and
\* no alert_events row is written for them
SkippedUntouched ==
    \A r \in DOMAIN rules :
        rules[r].stock_symbol \in FailedSymbols =>
            /\ rules'[r].last_checked_at = rules[r].last_checked_at
            /\ rules'[r].last_triggered_at = rules[r].last_triggered_at
            /\ EventsOf(NewEvents, r) = <<>>

\* every other symbol of the tick is fetched, evaluated and committed
OthersCommitted ==
    \A r \in last'.ids :
        rules[r].stock_symbol \notin FailedSymbols =>
            /\ r \in last'.evaluated
            /\ rules'[r].last_checked_at = now

\* C8 as stated: within one tick, a symbol whose quote fetch or evaluation
\* fails is skipped with its rules' last_checked_at and last_triggered_at
\* unchanged and no alert_events row written, while every other symbol of
\* the tick is still fetched, evaluated and committed.
C8_Stated ==
    [][last'.op \in AlertTicks => SkippedUntouched /\ OthersCommitted]_vars

\* the market clock says closed, in the words of is_market_open
MarketClosed ==
    \/ weekday \in {5, 6}
    \/ now < MARKET_OPEN_TIME
    \/ now > MARKET_CLOSE_TIME

\* the three periodic tasks
Ticks == {"SnapshotTick", "GapTick", "WindowTick"}

\* C9: a SnapshotTick, GapTick or WindowTick that starts while the market
\* is closed returns 'skipped' and leaves all persisted state unchanged: no
\* snapshot appended or purged, no quote fetched or cached, no rule's
\* last_checked_at or last_triggered_at changed, no notification sent, no
\* alert_events row written.
C9_MarketGate ==
    [][(last'.op \in Ticks /\ MarketClosed) =>
          /\ last'.status = "skipped"
          /\ UNCHANGED dbvars]_vars

\* a tick has just been skipped after hours with active rules, a stored
\* snapshot and a stale cached quote at hand
C9_Witness ==
    /\ last.op \in Ticks
    /\ last.status = "skipped"
    /\ weekday = 0
    /\ \E r \in DOMAIN rules : rules[r].is_active
    /\ snapshots # <<>>
    /\ GetFromDbCache(pricecache, TCS) # NoQuote

\* the directions of a threshold and the kinds of rule of each
Directions == {"drop", "spike"}

KindsOf(direction) ==
    IF direction = "drop" THEN <<"gap_down_", "drop_1h_", "drop_2h_">>
    ELSE <<"gap_up_", "spike_1h_", "spike_2h_">>

SignedThreshold(t, direction) == IF direction = "drop" THEN -t ELSE t

TokenOf(t, direction) == IF direction = "drop" THEN DropToken(t) ELSE SpikeToken(t)

\* this step is "alert add" with the threshold word of (t, direction) and
\* no active rule of the user for that symbol and threshold beforehand
AddsTriplet(t, direction) ==
    /\ last'.op = "add"
    /\ last'.input[3] = TokenOf(t, direction)
    /\ last'.status # "already_exists"

\* the three rows the step appended are the triplet of (t, direction)
TripletCreated(t, direction) ==
    LET n == Len(rules)
        phone == last'.input[1]
    IN /\ last'.status = "created"
       /\ Len(rules') = n + 3
       /\ SubSeq(rules', 1, n) = rules
       /\ \A k \in 1..3 :
             LET row == rules'[n + k]
             IN /\ row.is_active
                /\ row.user_id \in DOMAIN users'
                /\ users'[row.user_id] = phone
                /\ row.stock_symbol = Upper(last'.input[2])
                /\ row.threshold_percent = SignedThreshold(t, direction)
                /\ row.check_interval_seconds = rules'[n + 1].check_interval_seconds
                /\ row.alert_type = [prefix |-> KindsOf(direction)[k], pct |-> t]
                /\ row.last_checked_at = None
                /\ row.last_triggered_at = None

\* C10: for every threshold magnitude t in {5,7,8,9,10} and direction in
\* {drop, spike}, alert add creates exactly 3 new active rules for the user
\* that share the symbol, the signed threshold and one check interval, of
\* the kinds gap_down/drop_1h/drop_2h for a drop and gap_up/spike_1h/
\* spike_2h for a spike, with last_checked_at and last_triggered_at unset.
C10_Triplet ==
    [][\A t \in {5, 7, 8, 9, 10} : \A direction \in Directions :
          AddsTriplet(t, direction) => TripletCreated(t, direction)]_vars

\* the second user has just created the spike triplet of magnitude 10
C10_Witness ==
    /\ last.op = "add"
    /\ last.status = "created"
    /\ last.input = <<"+912", <<"i", "n", "f", "y">>, <<"+", "1", "0">>>>
    /\ Len(rules) = 3
    /\ \A r \in DOMAIN rules : rules[r].is_active /\ rules[r].threshold_percent = 10

\* checkInterval of the policy, in the claim's words
checkInterval(m) ==
    CASE m >= 10 -> 300
      [] 7 <= m /\ m < 10 -> 900
      [] OTHER -> 1800

\* get_check_interval and the computation of alert add both are checkInterval
\* of the magnitude, for a threshold of either sign
PolicyAgree ==
    \A m \in 0..MaxMagnitude :
        /\ get_check_interval(m) = checkInterval(m)
        /\ get_check_interval(-m) = checkInterval(m)
        /\ add_check_interval(m) = get_check_interval(m)

\* every rule stores checkInterval of its threshold's magnitude
StoredInterval ==
    \A r \in DOMAIN rules :
        /\ rules[r].check_interval_seconds = checkInterval(Abs(rules[r].threshold_percent))
        /\ rules[r].check_interval_seconds = get_check_interval(rules[r].threshold_percent)

\* no step changes the interval a rule stores
IntervalKept ==
    \A r \in DOMAIN rules :
        /\ r \in DOMAIN rules'
        /\ rules'[r].check_interval_seconds = rules[r].check_interval_seconds

MagnitudeWords ==
    {pre \o DecimalOf(t) \o post :
        pre \in {<<>>, <<"-">>, <<"+">>}, t \in TypedMagnitudes, post \in {<<>>, <<"%">>}}

\* every rule of the store has a supported magnitude
SupportedMagnitudes ==
    \A r \in DOMAIN rules : Abs(rules[r].threshold_percent) \in TypedMagnitudes

\* an alert add with any other threshold word creates no rule
OtherWordsRejected ==
    (last'.op = "add" /\ last'.input[3] \notin MagnitudeWords) => rules' = rules

\* C12 as stated: after any sequence of commands every rule of the store has
\* a threshold magnitude in {5,7,8,9,10}, and an alert add whose threshold
\* word is anything else, the keyword 'intraday' included, creates no rule.
C12_Stated == [][SupportedMagnitudes' /\ OtherWordsRejected]_vars

\* the rules a step deactivates
Cleared == {r \in DOMAIN rules : rules[r].is_active /\ ~rules'[r].is_active}

\* the rule r belongs to the user with this phone number
OwnedBy(r, phone) == users[rules[r].user_id] = phone

\* no row of alert_rules is removed or replaced by another rule
RowsKept ==
    /\ Len(rules') >= Len(rules)
    /\ \A r \in DOMAIN rules :
          /\ rules'[r].user_id = rules[r].user_id
          /\ rules'[r].stock_symbol = rules[r].stock_symbol
          /\ rules'[r].alert_type = rules[r].alert_type
          /\ rules'[r].threshold_percent = rules[r].threshold_percent

\* an inactive rule stays inactive
ActiveMonotone == \A r \in DOMAIN rules : ~rules[r].is_active => ~rules'[r].is_active

\* what a step may deactivate: nothing unless it is alert remove; by id the
\* named rule if it is an active rule of the requesting user; by symbol the
\* requesting user's active rules of that symbol
ClearedExactly ==
    IF last'.op # "remove" THEN Cleared = {}
    ELSE LET phone == last'.input[1]
             word == last'.input[2]
         IN IF IsDigitString(word)
            THEN Cleared = {r \in DOMAIN rules : /\ r = DigitsValue(word)
                                                 /\ rules[r].is_active
                                                 /\ OwnedBy(r, phone)}
            ELSE Cleared = {r \in DOMAIN rules : /\ rules[r].stock_symbol = Upper(word)
                                                 /\ rules[r].is_active
                                                 /\ OwnedBy(r, phone)}

\* C13: rules are only ever soft-deleted: no command removes a row of
\* alert_rules, is_active never goes back from false to true, alert remove
\* by id deactivates exactly the named rule and alert remove by symbol
\* exactly the requesting user's active rules of that symbol.  (That the
\* tasks leave is_active alone is part of C4.)
C13_SoftDelete == [][RowsKept /\ ActiveMonotone /\ ClearedExactly]_vars

\* a user has just removed their rules of a symbol while the other user's
\* rules of the same symbol stay active
C13_Witness ==
    /\ last.op = "remove"
    /\ last.status = "removed"
    /\ ~IsDigitString(last.input[2])
    /\ Cardinality(last.ids) = 3
    /\ \A r \in last.ids : ~rules[r].is_active
    /\ \E r \in DOMAIN rules :
          /\ rules[r].stock_symbol = Upper(last.input[2])
          /\ ~OwnedBy(r, last.input[1])
          /\ rules[r].is_active

\* the replies of alert remove that say nothing was found
NotFoundReplies == {"not_found", "no_alerts"}

\* alert remove names, by id, a rule that does not exist or is inactive, or,
\* by symbol, a symbol the requesting user has no active rule of
NothingToRemove ==
    LET phone == last'.input[1]
        word == last'.input[2]
    IN /\ last'.op = "remove"
       /\ IF IsDigitString(word)
          THEN DigitsValue(word) \notin DOMAIN rules \/ ~rules[DigitsValue(word)].is_active
          ELSE ~\E r \in DOMAIN rules : /\ rules[r].stock_symbol = Upper(word)
                                         /\ rules[r].is_active
                                         /\ OwnedBy(r, phone)

\* C14: alert remove by id of a rule that is already inactive or does not
\* exist is a no-op: the reply is the 'not found' one ("No alerts found"
\* for a sender who is no user yet), no error is raised and every rule and
\* every other table is unchanged; likewise alert remove by symbol when the
\* user has no active rule of the symbol.
C14_RemoveNoOp ==
    [][NothingToRemove =>
          /\ last'.status \in NotFoundReplies
          /\ last'.input[1] \in Range(users) => last'.status = "not_found"
          /\ UNCHANGED dbvars]_vars

\* a user has just asked again to remove their rule 2, which was inactive
C14_Witness ==
    /\ last.op = "remove"
    /\ last.status = "not_found"
    /\ last.input[2] = <<"2">>
    /\ Len(rules) >= 2
    /\ OwnedBy(2, last.input[1])
    /\ ~rules[2].is_active
    /\ \E r \in DOMAIN rules : rules[r].is_active

(***************************************************************************)
(* Properties of the evaluator                                             *)
(***************************************************************************)
\* this step is a call of should_trigger
IsTriggerCall == call'.fn = "should_trigger"

\* the rule, the quote and the answer of the call of this step
CalledRule == rules[call'.arg[1]]
CalledQuote == call'.arg[2]
TriggerAnswer == call'.result[1]

\* the window length in hours of each window type
HoursOf(prefix) == IF prefix \in {"drop_2h_", "spike_2h_", "intraday_2h_"} THEN 2 ELSE 1

\* x/base*100 <= pct and x/base*100 >= pct for a positive base
PercentAtMost(x, base, pct) == 100 * x <= pct * base
PercentAtLeast(x, base, pct) == 100 * x >= pct * base

\* gap = (open - previousClose)/previousClose*100 against the rule's threshold
GapAtMostThreshold(q, rule) ==
    PercentAtMost(q.open_price - q.previous_close, q.previous_close, rule.threshold_percent)
GapAtLeastThreshold(q, rule) ==
    PercentAtLeast(q.open_price - q.previous_close, q.previous_close, rule.threshold_percent)

\* what the contract says of a gap rule and a quote with open and previousClose
GapContract ==
    LET q == CalledQuote
        rule == CalledRule
        kind == rule.alert_type.prefix
    IN (q.open_price # 0 /\ q.previous_close # 0) =>
          /\ kind = "gap_down_" => TriggerAnswer = GapAtMostThreshold(q, rule)
          /\ kind = "gap_up_" => TriggerAnswer = GapAtLeastThreshold(q, rule)
          /\ (kind = "gap_down_" /\ q.previous_close = 3500 /\ q.open_price = 3220) =>
                TriggerAnswer = (rule.threshold_percent = -8)
          /\ (kind = "gap_down_" /\ q.previous_close = 3500 /\ q.open_price = 3221) =>
                TriggerAnswer = FALSE
          /\ (kind = "gap_up_" /\ q.previous_close = 3200 /\ q.open_price = 3456) =>
                TriggerAnswer = (rule.threshold_percent = 8)

\* C15: for a gap rule and a quote with open and previousClose present, with
\* gap = (open - previousClose)/previousClose*100, a gap_down rule triggers
\* iff gap <= threshold and a gap_up rule iff gap >= threshold, boundaries
\* included: previousClose 3500 and open 3220 trigger the gap_down rule of
\* threshold -8 and no gap_down rule of a lower threshold (thresholds are
\* whole percents here; -9 stands for the claim's -8.01).
C15_GapTrigger == [][IsTriggerCall => GapContract]_vars

\* the gap_down rule of -8 has just triggered on the boundary quote
C15_Witness ==
    /\ call.fn = "should_trigger"
    /\ rules[call.arg[1]].alert_type.prefix = "gap_down_"
    /\ rules[call.arg[1]].threshold_percent = -8
    /\ call.arg[2].previous_close = 3500
    /\ call.arg[2].open_price = 3220
    /\ call.result = <<TRUE>>

\* the snapshots of the symbol with sample time in [now - h hours, now]
InWindow(symbol, h) ==
    {i \in DOMAIN snapshots :
        /\ snapshots[i].stock_symbol = symbol
        /\ now - h * 3600 <= snapshots[i].snapshot_time
        /\ snapshots[i].snapshot_time <= now}

\* the highest and the lowest price among the snapshots W
HighOf(W) == CHOOSE x \in {snapshots[i].price : i \in W} : \A i \in W : snapshots[i].price <= x
LowOf(W) == CHOOSE x \in {snapshots[i].price : i \in W} : \A i \in W : snapshots[i].price >= x

\* what the contract says of a drop_window rule and a quote with a current price
DropContract ==
    LET q == CalledQuote
        rule == CalledRule
        kind == rule.alert_type.prefix
        W == InWindow(rule.stock_symbol, HoursOf(kind))
    IN (kind \in {"drop_1h_", "drop_2h_", "intraday_1h_", "intraday_2h_"}
            /\ q.current_price # 0) =>
          /\ TriggerAnswer =
                (/\ W # {}
                 /\ PercentAtMost(q.current_price - HighOf(W), HighOf(W), rule.threshold_percent))
          /\ W = {} => TriggerAnswer = FALSE
          /\ ({snapshots[i].price : i \in W} = {3500, 3450, 3400}
                 /\ q.current_price = 3220 /\ rule.threshold_percent = -8) =>
                TriggerAnswer = TRUE

\* C16: a drop_window(h) rule triggers iff at least one snapshot of its
\* symbol has a sample time in [now - h, now], both ends included, and
\* (current - high)/high*100 <= threshold, high being the highest price of
\* exactly those snapshots; with no snapshot in the window the answer is
\* no-trigger, not an error; snapshots 3500, 3450, 3400 with current 3220
\* trigger the threshold -8.  (The quote has a current price; C18 is about
\* the quote without one.)
C16_DropWindow == [][IsTriggerCall => DropContract]_vars

\* the 2-hour drop rule of -8 has just triggered on a high that is exactly
\* two hours old
C16_Witness ==
    /\ call.fn = "should_trigger"
    /\ rules[call.arg[1]].alert_type.prefix = "drop_2h_"
    /\ rules[call.arg[1]].threshold_percent = -8
    /\ snapshots = <<SnapshotAgo(TCS, 3500, 7200), SnapshotAgo(TCS, 3400, 1800)>>
    /\ call.arg[2].current_price = 3220
    /\ call.result = <<TRUE>>

\* what the contract says of a spike_window rule and a quote with a current price
SpikeContract ==
    LET q == CalledQuote
        rule == CalledRule
        kind == rule.alert_type.prefix
        W == InWindow(rule.stock_symbol, HoursOf(kind))
    IN (kind \in {"spike_1h_", "spike_2h_"} /\ q.current_price # 0) =>
          /\ TriggerAnswer =
                (/\ W # {}
                 /\ PercentAtLeast(q.current_price - LowOf(W), LowOf(W), rule.threshold_percent))
          /\ W = {} => TriggerAnswer = FALSE
          /\ ({snapshots[i].price : i \in W} = {3200, 3250, 3300}
                 /\ q.current_price = 3456 /\ rule.threshold_percent = 8) =>
                TriggerAnswer = TRUE

\* C17: a spike_window(h) rule triggers iff at least one snapshot of its
\* symbol has a sample time in [now - h, now] and (current - low)/low*100 >=
\* threshold, low being the lowest price of exactly those snapshots;
\* snapshots of other symbols or outside the window never affect the
\* answer, and an empty window gives no-trigger.
C17_SpikeWindow == [][IsTriggerCall => SpikeContract]_vars

\* the 1-hour spike rule of 8 has just been evaluated on a quote that is 8
\* percent above another symbol's low but less above its own: no trigger
C17_Witness ==
    /\ call.fn = "should_trigger"
    /\ rules[call.arg[1]].alert_type.prefix = "spike_1h_"
    /\ rules[call.arg[1]].threshold_percent = 8
    /\ snapshots = <<SnapshotAgo(INFY, 3200, 1800), SnapshotAgo(TCS, 3300, 1800)>>
    /\ call.arg[2].current_price = 3456
    /\ call.result = <<FALSE>>

\* the alert types the evaluator knows, the legacy aliases included
KnownKinds ==
    {"gap_down_", "gap_up_", "drop_1h_", "drop_2h_", "spike_1h_", "spike_2h_",
     "intraday_1h_", "intraday_2h_"}

\* the quote lacks a field the rule's kind needs
LacksField(q, kind) ==
    IF kind \in {"gap_down_", "gap_up_"}
    THEN q.open_price = 0 \/ q.previous_close = 0
    ELSE q.current_price = 0

\* C18: should_trigger is total and free of side effects: for every rule
\* and quote it answers a boolean and never raises; it answers false when
\* the quote lacks open or previous_close (gap kinds) or current (window
\* kinds), and false for an alert type outside the known kinds; it changes
\* no rule, snapshot or event.
C18_ShouldTriggerTotal ==
    [][IsTriggerCall =>
          /\ TriggerAnswer \in BOOLEAN
          /\ LacksField(CalledQuote, CalledRule.alert_type.prefix) => TriggerAnswer = FALSE
          /\ CalledRule.alert_type.prefix \notin KnownKinds => TriggerAnswer = FALSE
          /\ UNCHANGED dbvars]_vars

\* a rule of the type "drop_8" has just been evaluated on the quote and the
\* snapshots that trigger the 1-hour drop rule of -8: no trigger
C18_Witness ==
    /\ call.fn = "should_trigger"
    /\ rules[call.arg[1]].alert_type.prefix = "drop_"
    /\ rules[call.arg[1]].threshold_percent = -8
    /\ snapshots = <<SnapshotAgo(TCS, 3500, 3600), SnapshotAgo(TCS, 3450, 1800),
                     SnapshotAgo(TCS, 3400, 600)>>
    /\ call.arg[2].current_price = 3220
    /\ call.result = <<FALSE>>

(***************************************************************************)
(* Properties of the price source                                          *)
(***************************************************************************)
\* this step is a call of get_current_price: the clock stands still and
\* `call` holds the call
IsQuoteCall ==
    /\ call'.fn = "get_current_price"
    /\ now' = now

\* the symbol asked for, what the remote would answer, and the answer
AskedSymbol == call'.arg[1]
OfferedRemote == call'.arg[2]
QuoteAnswer == call'.result[1]

\* the fast cache holds an unexpired entry of the symbol
FastHit(symbol) == redis[symbol] # NoEntry /\ now < redis[symbol].expires_at

\* the age of the durable entry of the symbol, None if there is none
DurableAge(symbol) ==
    IF GetFromDbCache(pricecache, symbol) = NoQuote THEN None
    ELSE now - GetFromDbCache(pricecache, symbol).timestamp

\* C19: tier 1 of get_current_price: when the fast cache holds an unexpired
\* entry of the symbol the call answers that entry, whatever the remote
\* provider would say, and changes neither cache: the durable cache is not
\* written and the expiry of the fast entry is not extended.
C19_FastCacheHit ==
    [][(IsQuoteCall /\ FastHit(AskedSymbol)) =>
          /\ QuoteAnswer = redis[AskedSymbol].quote
          /\ redis' = redis
          /\ pricecache' = pricecache]_vars

\* the call has just answered a fast-cache entry in its last second, the
\* remote provider having another price to offer
C19_Witness ==
    /\ call.fn = "get_current_price"
    /\ redis[call.arg[1]] # NoEntry
    /\ redis[call.arg[1]].expires_at = now + 1
    /\ call.result = <<redis[call.arg[1]].quote>>
    /\ call.arg[2].ok
    /\ call.arg[2].current_price # call.result[1].current_price

\* the quote a remote fetch at this moment yields, NoQuote if it fails
FetchedNow ==
    IF OfferedRemote.ok
    THEN [current_price |-> OfferedRemote.current_price,
          previous_close |-> OfferedRemote.previous_close,
          open_price |-> OfferedRemote.open_price,
          timestamp |-> now]
    ELSE NoQuote

\* tier 2: the durable entry is answered and copied into the fast cache
DurableAnswered(symbol) ==
    /\ QuoteAnswer = GetFromDbCache(pricecache, symbol)
    /\ redis'[symbol] = [quote |-> GetFromDbCache(pricecache, symbol),
                         expires_at |-> now + STOCK_PRICE_CACHE_TTL]
    /\ \A other \in Symbols \ {symbol} : redis'[other] = redis[other]
    /\ pricecache' = pricecache

\* the call went on to the remote provider
RemoteAsked(symbol) ==
    /\ QuoteAnswer = FetchedNow
    /\ OfferedRemote.ok => GetFromDbCache(pricecache', symbol) = FetchedNow

\* C20: tier 2 of get_current_price: on a fast-cache miss, a durable entry
\* of the symbol whose age is at most the durable TTL (an age equal to the
\* TTL is fresh) is copied into the fast cache and answered without the
\* remote provider being asked; with an older entry or none the call goes
\* on to the remote fetch.
C20_DurableCacheHit ==
    [][(IsQuoteCall /\ ~FastHit(AskedSymbol)) =>
          LET age == DurableAge(AskedSymbol)
          IN IF age # None /\ age <= STOCK_PRICE_DB_CACHE_TTL
             THEN DurableAnswered(AskedSymbol)
             ELSE RemoteAsked(AskedSymbol)]_vars

\* the call has just answered a durable entry exactly as old as the TTL
\* and put it into the fast cache, the remote provider having another
\* price to offer
C20_Witness ==
    /\ call.fn = "get_current_price"
    /\ GetFromDbCache(pricecache, call.arg[1]) # NoQuote
    /\ now - GetFromDbCache(pricecache, call.arg[1]).timestamp = STOCK_PRICE_DB_CACHE_TTL
    /\ call.result = <<GetFromDbCache(pricecache, call.arg[1])>>
    /\ redis[call.arg[1]] = [quote |-> GetFromDbCache(pricecache, call.arg[1]),
                             expires_at |-> now + STOCK_PRICE_CACHE_TTL]
    /\ call.arg[2].ok
    /\ call.arg[2].current_price # call.result[1].current_price

\* both caches miss: no unexpired fast entry, and no durable entry or a
\* stale one
BothMiss(symbol) ==
    /\ ~FastHit(symbol)
    /\ DurableAge(symbol) = None \/ DurableAge(symbol) > STOCK_PRICE_DB_CACHE_TTL

\* the rows the durable cache holds for a symbol
DurableRows(symbol) == {i \in DOMAIN pricecache : pricecache[i].stock_symbol = symbol}

\* the fetched quote is answered and written through to both caches, the
\* entries of the other symbols staying as they were
WrittenThrough(symbol) ==
    /\ QuoteAnswer = FetchedNow
    /\ GetFromDbCache(pricecache', symbol) = FetchedNow
    /\ redis'[symbol] = [quote |-> FetchedNow,
                         expires_at |-> now + STOCK_PRICE_CACHE_TTL]
    /\ \A other \in Symbols \ {symbol} :
          /\ redis'[other] = redis[other]
          /\ GetFromDbCache(pricecache', other) = GetFromDbCache(pricecache, other)

\* C21: tier 3 of get_current_price: when both caches miss and the remote
\* fetch succeeds, the call answers the fetched quote and both the durable
\* and the fast cache hold it for the symbol afterwards; the durable write
\* is an upsert, so the durable cache never holds more than one row of a
\* symbol.  (The writes to the two caches are taken to succeed.)
C21_RemoteWriteThrough ==
    /\ [][(IsQuoteCall /\ BothMiss(AskedSymbol) /\ OfferedRemote.ok) =>
             WrittenThrough(AskedSymbol)]_vars
    /\ [](\A symbol \in Symbols : Cardinality(DurableRows(symbol)) <= 1)

\* the call has just fetched a quote for the symbol whose row came first
\* into the durable cache, after the row of the other symbol was last
\* written: the fetch overwrote a stale row and both caches hold the quote
C21_Witness ==
    /\ call.fn = "get_current_price"
    /\ call.arg[2].ok
    /\ call.result[1].timestamp = now
    /\ Len(pricecache) = Cardinality(Symbols)
    /\ pricecache[1].stock_symbol = call.arg[1]
    /\ pricecache[1].last_updated = now
    /\ pricecache[2].last_updated < now
    /\ redis[call.arg[1]].quote = call.result[1]
    /\ GetFromDbCache(pricecache, call.arg[1]) = call.result[1]

\* C22: failure of get_current_price: when both caches miss (no durable
\* entry, or a stale one) and the remote fetch fails, the call answers
\* "no price" and leaves both caches exactly as they were: a stale durable
\* entry is neither answered nor refreshed.
C22_RemoteFailure ==
    [][(IsQuoteCall /\ BothMiss(AskedSymbol) /\ ~OfferedRemote.ok) =>
          /\ QuoteAnswer = NoQuote
          /\ redis' = redis
          /\ pricecache' = pricecache]_vars

\* the call has just answered "no price" with a stale durable entry of the
\* symbol at hand, which is still there, and nothing in the fast cache
C22_Witness ==
    /\ call.fn = "get_current_price"
    /\ ~call.arg[2].ok
    /\ call.result = <<NoQuote>>
    /\ GetFromDbCache(pricecache, call.arg[1]) # NoQuote
    /\ now - GetFromDbCache(pricecache, call.arg[1]).timestamp > STOCK_PRICE_DB_CACHE_TTL
    /\ redis[call.arg[1]] = NoEntry

(***************************************************************************)
(* Properties of the snapshot clean-up                                     *)
(***************************************************************************)
\* this step runs the clean-up
IsPurgeCall == call'.fn = "purge"

PurgeCutoff == call'.arg[1]
DeletedCount == call'.result[1]

\* the rows the clean-up deletes: the sample time is before the cutoff
Doomed == {i \in DOMAIN snapshots : snapshots[i].snapshot_time < PurgeCutoff}

\* C23: the clean-up with cutoff c deletes exactly the snapshots whose
\* sample time is strictly before c, a snapshot taken at c surviving, and
\* it is idempotent: run again with the same cutoff, no row having been
\* added in between, it deletes nothing.
C23_PurgeExact ==
    [][IsPurgeCall =>
          /\ snapshots' = SelectSeq(snapshots,
                                    LAMBDA sn : sn.snapshot_time >= PurgeCutoff)
          /\ DeletedCount = Cardinality(Doomed)
          /\ (call.fn = "purge" /\ call.arg = call'.arg) =>
                 (DeletedCount = 0 /\ snapshots' = snapshots)]_vars

\* the clean-up of a full table has just deleted rows and kept a row taken
\* at the very cutoff
C23_Witness ==
    /\ call.fn = "purge"
    /\ call.result[1] > 0
    /\ \E sn \in Range(snapshots) : sn.snapshot_time = call.arg[1]
    /\ Len(snapshots) + call.result[1] = MaxPurgeRows

(***************************************************************************)
(* Properties of the market clock                                          *)
(***************************************************************************)
\* this step asks the market clock: the clock stands still
IsClockCall(fn) ==
    /\ call'.fn = fn
    /\ now' = now
    /\ weekday' = weekday

\* Saturday and Sunday
Weekend == weekday >= 5

\* C24: is_market_open answers true exactly when get_market_phase answers
\* 'open' at the same instant, and on a Saturday or a Sunday the first
\* answers false and the second 'closed' at every time of the day.
C24_OpenIffPhaseOpen ==
    [][/\ IsClockCall("is_market_open") =>
            /\ call'.result[1] <=> (get_market_phase(weekday, now) = "open")
            /\ Weekend => ~call'.result[1]
       /\ IsClockCall("get_market_phase") =>
            /\ (call'.result[1] = "open") <=> is_market_open(weekday, now)
            /\ Weekend => call'.result[1] = "closed"]_vars

\* get_market_phase has just answered 'open' at 15:30:00 of a Friday, the
\* last instant is_market_open calls open
C24_Witness ==
    /\ call.fn = "get_market_phase"
    /\ call.arg = <<4, MARKET_CLOSE_TIME>>
    /\ call.result = <<"open">>
    /\ now = MARKET_CLOSE_TIME
    /\ is_market_open(weekday, now)

(***************************************************************************)
(* Properties of the threshold parser                                      *)
(***************************************************************************)
\* the answers ("drop_n", -n) and ("spike_n", +n)
DropOf(n) == [ok |-> TRUE, alert_type |-> AlertType("drop_", n), threshold |-> -n]
SpikeOf(n) == [ok |-> TRUE, alert_type |-> AlertType("spike_", n), threshold |-> n]

\* the answer of the call to the word
ParsedAs(word, answer) ==
    (call.fn = "parse_alert_threshold" /\ call.arg = <<word>>) => call.result = <<answer>>

\* C25 as stated: parse_alert_threshold takes a number without a sign for a
\* drop: for every n in {5,7,8,9,10} the words "n" and "-n" are answered
\* ("drop_n", -n) and only the word "+n" is answered ("spike_n", +n).
C25_Stated ==
    \A n \in TypedMagnitudes :
        /\ ParsedAs(DecimalOf(n), DropOf(n))
        /\ ParsedAs(DropToken(n), DropOf(n))
        /\ ParsedAs(SpikeToken(n), SpikeOf(n))

(***************************************************************************)
(* Further properties of the monitoring system                             *)
(***************************************************************************)
\* a GapTick evaluates only rules that no tick evaluated at an earlier
\* moment of the session
GapEvaluatedOnce ==
    last'.op = "GapTick" =>
        \A r \in last'.evaluated : lastEval[r] \in {None, now}

\* C26 as stated: the gate of GapTick lets each active gap rule be evaluated
\* once in a trading session, not at every GapTick period while the market
\* is open.
C26_Stated == [][GapEvaluatedOnce]_vars

\* the rules of a tick that belong to the group of a symbol
GroupOf(symbol) == {r \in last'.ids : rules[r].stock_symbol = symbol}

\* everything the tick did to the group is in the store: every rule of the
\* group carries the tick time as last_checked_at
GroupPersisted(symbol) ==
    \A r \in GroupOf(symbol) : rules'[r].last_checked_at = now

\* nothing the tick did to the group is in the store
GroupUntouched(symbol) ==
    \A r \in GroupOf(symbol) :
        /\ rules'[r].last_checked_at = rules[r].last_checked_at
        /\ rules'[r].last_triggered_at = rules[r].last_triggered_at
        /\ EventsOf(NewEvents, r) = <<>>

\* C27 as stated: the state transitions of a symbol group are committed
\* atomically: for each group a GapTick or WindowTick processes, either all
\* its last_checked_at and last_triggered_at updates and its alert_events
\* rows become persistent together or none do.
C27_Stated ==
    [][last'.op \in AlertTicks =>
          \A symbol \in Symbols : GroupPersisted(symbol) \/ GroupUntouched(symbol)]_vars

(***************************************************************************)
(* Properties of the snapshot task                                         *)
(***************************************************************************)
\* this step is a run of collect_price_snapshots with the market open
SnapshotTickDone ==
    /\ last'.op = "SnapshotTick"
    /\ last'.status = "success"

\* no stored snapshot is older than two hours
NoneOlderThanHorizon ==
    \A i \in DOMAIN snapshots : snapshots[i].snapshot_time >= now - SNAPSHOT_RETENTION

\* C28 as stated: after every SnapshotTick that runs with the market open
\* and completes, no stored snapshot has a sample time older than the tick
\* time minus two hours, the ticks with no active rule and the ticks whose
\* quotes could not be fetched included.
C28_Stated == [][SnapshotTickDone => NoneOlderThanHorizon']_vars

\* instants a window evaluation may run at, from this moment on: at once,
\* a second later, and after each step of the clock
LaterInstants == {now + d : d \in {0, 1} \cup SnapSteps}

\* the snapshot is inside the window [t - hours, t] of an evaluation at t
InsideWindow(sn, t, hours) ==
    /\ sn.snapshot_time >= t - hours * HOUR
    /\ sn.snapshot_time <= t

\* the rows the step took out of the table
Purged == {i \in DOMAIN snapshots : snapshots[i] \notin Range(snapshots')}

\* C29: the purge horizon is in step with the largest window: the purge of
\* a SnapshotTick at tick time T deletes no snapshot that lies inside the
\* one-hour or the two-hour window of a window evaluation made at T or
\* later, so such an evaluation sees the same prices with and without the
\* purge.
C29_PurgeKeepsWindows ==
    [][last'.op = "SnapshotTick" =>
          \A t \in LaterInstants : \A hours \in {1, 2} :
              /\ \A i \in Purged : ~InsideWindow(snapshots[i], t, hours)
              /\ \A symbol \in Symbols :
                    WindowPrices(snapshots, symbol, t, hours)
                        \subseteq WindowPrices(snapshots', symbol, t, hours)]_vars

\* a SnapshotTick has just taken a snapshot and purged the table, keeping
\* a snapshot taken exactly two hours before, which a two-hour window of
\* this moment holds
C29_Witness ==
    /\ last.op = "SnapshotTick"
    /\ last.status = "success"
    /\ \E r \in DOMAIN rules : rules[r].is_active
    /\ \E i \in DOMAIN snapshots : snapshots[i].snapshot_time = now - SNAPSHOT_RETENTION
    /\ \E i \in DOMAIN snapshots : snapshots[i].snapshot_time = now

(***************************************************************************)
(* Properties of the batching                                              *)
(***************************************************************************)
\* how many times the tick asked the price source for the symbol
FetchCount(symbol) ==
    Cardinality({i \in DOMAIN last'.fetches : last'.fetches[i] = symbol})

\* the symbols of the rules an alert tick selected
SelectedSymbols == {rules[r].stock_symbol : r \in last'.ids}

\* the symbols that have an active rule
ActiveSymbols == {rules[r].stock_symbol : r \in {i \in DOMAIN rules : rules[i].is_active}}

\* the price source is asked once for every symbol of S and for no other
FetchedOncePer(S) ==
    \A symbol \in Symbols : FetchCount(symbol) = IF symbol \in S THEN 1 ELSE 0

\* every selected rule of a symbol whose quote came is evaluated, and the
\* alert_events rows of the tick carry the prices of the one quote of the
\* symbol, which the fast cache holds
OneQuotePerGroup ==
    \A r \in last'.ids :
        LET symbol == rules[r].stock_symbol
            quote == redis'[symbol].quote
        IN /\ r \in last'.evaluated <=> symbol \notin last'.fetchFailed
           /\ \A i \in DOMAIN EventsOf(NewEvents, r) :
                 /\ EventsOf(NewEvents, r)[i].stock_price = quote.current_price
                 /\ EventsOf(NewEvents, r)[i].previous_price = quote.previous_close

\* the rows a step appended to intraday_price_snapshots
NewSnapshots == SubSeq(snapshots', Len(snapshots) + 1, Len(snapshots'))

\* one new snapshot for every symbol with an active rule whose quote came,
\* none for any other symbol, all of them taken at the tick time
OneSnapshotPerSymbol ==
    /\ \A symbol \in Symbols :
          Cardinality({i \in DOMAIN NewSnapshots : NewSnapshots[i].stock_symbol = symbol})
              = IF symbol \in ActiveSymbols \ last'.fetchFailed THEN 1 ELSE 0
    /\ \A i \in DOMAIN NewSnapshots :
          /\ NewSnapshots[i].snapshot_time = now
          /\ NewSnapshots[i].price = redis'[NewSnapshots[i].stock_symbol].quote.current_price

\* C30: batching: a GapTick or a WindowTick asks the price source exactly
\* once for every distinct symbol of the rules it selected and evaluates
\* every selected rule of the symbol against that one quote; a SnapshotTick
\* asks once for every distinct symbol with an active rule and appends one
\* snapshot of it when the quote came and none when it did not, all with
\* the tick time as sample time.
C30_Batching ==
    [][/\ (last'.op \in AlertTicks /\ last'.status = "success") =>
             (FetchedOncePer(SelectedSymbols) /\ OneQuotePerGroup)
       /\ (last'.op = "SnapshotTick" /\ last'.status = "success") =>
             (FetchedOncePer(ActiveSymbols) /\ OneSnapshotPerSymbol)]_vars

\* an alert tick has just evaluated rules of both symbols from two fetches
\* and written the rows of two rules of one symbol
C30_Witness ==
    /\ last.op \in AlertTicks
    /\ last.fetches = <<TCS, INFY>>
    /\ Cardinality(last.evaluated) >= 4
    /\ \E i, j \in DOMAIN events :
          /\ i < j
          /\ events[i].triggered_at = now
          /\ events[j].triggered_at = now
          /\ rules[events[i].alert_rule_id].stock_symbol
                = rules[events[j].alert_rule_id].stock_symbol

(***************************************************************************)
(* Further properties of the market clock                                  *)
(***************************************************************************)
\* the answer of get_market_phase held by `call` is the phase `p` whenever
\* the call was made on a weekday at an instant of the set `S`
PhaseIn(S, p) ==
    (call.fn = "get_market_phase" /\ call.arg[1] < 5 /\ call.arg[2] \in S)
        => call.result = <<p>>

\* the seconds of a day
DaySeconds == 0 .. (24 * HOUR - 1)

\* C35 as stated: on a weekday the four boundaries cut the day into
\* half-open intervals: [09:00,09:15) is pre_market, [09:15,15:30) is open,
\* [15:30,16:00) is post_market, every other instant, 16:00:00 included, is
\* closed.
C35_Stated ==
    /\ PhaseIn(PRE_MARKET_OPEN .. (MARKET_OPEN_TIME - 1), "pre_market")
    /\ PhaseIn(MARKET_OPEN_TIME .. (MARKET_CLOSE_TIME - 1), "open")
    /\ PhaseIn(MARKET_CLOSE_TIME .. (POST_MARKET_CLOSE - 1), "post_market")
    /\ PhaseIn(DaySeconds \ (PRE_MARKET_OPEN .. (POST_MARKET_CLOSE - 1)), "closed")

\* C35: on a weekday [09:00,09:15) is pre_market, [09:15,15:30] is open
\* with 15:30:00 itself open, (15:30,16:00] is post_market with 16:00:00
\* itself post_market, and every other instant is closed; each instant has
\* exactly one phase.
C35_PhasePartition ==
    /\ PhaseIn(PRE_MARKET_OPEN .. (MARKET_OPEN_TIME - 1), "pre_market")
    /\ PhaseIn(MARKET_OPEN_TIME .. MARKET_CLOSE_TIME, "open")
    /\ PhaseIn((MARKET_CLOSE_TIME + 1) .. POST_MARKET_CLOSE, "post_market")
    /\ PhaseIn(DaySeconds \ (PRE_MARKET_OPEN .. POST_MARKET_CLOSE), "closed")

\* get_market_phase has just answered 'post_market' at 16:00:00 of a Monday
C35_Witness ==
    /\ call.fn = "get_market_phase"
    /\ call.arg = <<0, POST_MARKET_CLOSE>>
    /\ call.result = <<"post_market">>

(***************************************************************************)
(* The two windows of the rolling-window rules                             *)
(***************************************************************************)
\* the rule of the call with the 2-hour window in place of the 1-hour one
TwoHourRule(rule) ==
    [rule EXCEPT !.alert_type.prefix =
        IF rule.alert_type.prefix = "drop_1h_" THEN "drop_2h_" ELSE "spike_2h_"]

\* C37: on the same symbol, snapshot table, evaluation time, quote and
\* threshold, a 1-hour drop rule that triggers implies that the 2-hour drop
\* rule triggers, and a 1-hour spike rule that triggers implies that the
\* 2-hour spike rule triggers.
C37_WindowMonotone ==
    [][(IsTriggerCall
          /\ CalledRule.alert_type.prefix \in {"drop_1h_", "spike_1h_"}
          /\ TriggerAnswer)
          => should_trigger(TwoHourRule(CalledRule), CalledQuote, snapshots, now)]_vars

\* the 1-hour drop rule of -8 has just triggered on a high that is exactly
\* one hour old, the later samples being lower
C37_Witness ==
    /\ call.fn = "should_trigger"
    /\ rules[call.arg[1]].alert_type.prefix = "drop_1h_"
    /\ rules[call.arg[1]].threshold_percent = -8
    /\ snapshots = <<SnapshotAgo(TCS, 3500, 3600), SnapshotAgo(TCS, 3450, 1800),
                     SnapshotAgo(TCS, 3400, 600)>>
    /\ call.arg[2].current_price = 3220
    /\ call.result = <<TRUE>>
    /\ should_trigger(TwoHourRule(rules[call.arg[1]]), call.arg[2], snapshots, now)

(***************************************************************************)
(* Further properties of the registry                                      *)
(***************************************************************************)
\* the active rules of one user for one symbol
ActiveOf(user_id, symbol) ==
    {r \in DOMAIN rules : /\ rules[r].user_id = user_id
                          /\ rules[r].stock_symbol = symbol
                          /\ rules[r].is_active}

\* no user has two active rules of one symbol and one alert type
OneActivePerType ==
    \A r1, r2 \in DOMAIN rules :
        (/\ rules[r1].is_active /\ rules[r2].is_active
         /\ rules[r1].user_id = rules[r2].user_id
         /\ rules[r1].stock_symbol = rules[r2].stock_symbol
         /\ rules[r1].alert_type = rules[r2].alert_type) => r1 = r2

\* the step is an alert add of a known user for a symbol and a signed
\* threshold of which that user still has an active rule
AddOfHeldThreshold ==
    /\ last'.op = "add"
    /\ \E u \in DOMAIN users :
          /\ users[u] = last'.input[1]
          /\ \E r \in ActiveOf(u, Upper(last'.input[2])) :
                /\ parse_alert_threshold(last'.input[3]).ok
                /\ rules[r].threshold_percent = parse_alert_threshold(last'.input[3]).threshold

\* C38: after any sequence of alert add and alert remove commands run one
\* after the other, a user has at most one active rule per symbol and alert
\* type: an alert add for a symbol and signed threshold of which the user
\* still has an active rule is rejected and creates nothing, also when only
\* a part of the earlier triplet is still active.
C38_OneActivePerType ==
    /\ [](OneActivePerType)
    /\ [][AddOfHeldThreshold =>
            (last'.status = "already_exists" /\ rules' = rules /\ users' = users)]_vars

\* an alert add has just been rejected while only a part of the earlier
\* triplet was active
C38_Witness ==
    /\ last.op = "add"
    /\ last.status = "already_exists"
    /\ last.ids # {}
    /\ Cardinality(last.ids) < 3
    /\ \E r \in DOMAIN rules : ~rules[r].is_active

\* the rules of the user with this phone number that are active
ActiveRulesOf(phone) ==
    {r \in DOMAIN rules : rules[r].is_active /\ users[rules[r].user_id] = phone}

\* alert remove leaves is_active of every rule of another user as it was
RemoveSparesOthers ==
    last'.op = "remove" =>
        \A r \in DOMAIN rules :
            users[rules[r].user_id] # last'.input[1] => rules'[r] = rules[r]

\* alert remove by the id of a rule of another user answers not found and
\* changes nothing
RemoveForeignId ==
    (/\ last'.op = "remove"
     /\ IsDigitString(last'.input[2])
     /\ DigitsValue(last'.input[2]) \in DOMAIN rules
     /\ users[rules[DigitsValue(last'.input[2])].user_id] # last'.input[1])
        => (last'.status \in NotFoundReplies /\ rules' = rules)

\* alert list answers the requesting user's active rules and no other
ListOwnRules ==
    last'.op = "list" =>
        /\ last'.ids = ActiveRulesOf(last'.input[1])
        /\ rules' = rules

\* C39: an alert remove of user A, by id or by symbol, never changes
\* is_active of a rule of another user B; alert list for A answers exactly
\* the active rules of A; alert remove by an id that belongs to B answers
\* not found and changes nothing.
C39_Ownership == [][RemoveSparesOthers /\ RemoveForeignId /\ ListOwnRules]_vars

\* a user has just listed their rules while the other user has active
\* rules too, after an alert remove by the id of a rule of the other user
\* was answered not found
C39_Witness ==
    /\ last.op = "list"
    /\ last.status = "listed"
    /\ \E r \in DOMAIN rules : rules[r].is_active /\ r \notin last.ids

\* an alert remove by the id of an active rule of another user has just
\* been answered not found
ForeignIdRefused ==
    /\ last.op = "remove"
    /\ last.status = "not_found"
    /\ IsDigitString(last.input[2])
    /\ DigitsValue(last.input[2]) \in DOMAIN rules
    /\ rules[DigitsValue(last.input[2])].is_active
    /\ users[rules[DigitsValue(last.input[2])].user_id] # last.input[1]

(***************************************************************************)
(* Commands that are refused                                               *)
(***************************************************************************)
\* the step is an alert add whose threshold word names no supported magnitude
AddOfOtherWord == last'.op = "add" /\ last'.input[3] \notin MagnitudeWords

\* the step is an alert remove that names, by id or by symbol, no active
\* rule of the requesting user
RemoveOfNothing ==
    /\ last'.op = "remove"
    /\ LET phone == last'.input[1]
           word == last'.input[2]
       IN {r \in DOMAIN rules :
              /\ rules[r].is_active
              /\ OwnedBy(r, phone)
              /\ IF IsDigitString(word) THEN r = DigitsValue(word)
                 ELSE rules[r].stock_symbol = Upper(word)} = {}

\* the replies that refuse a command
RefusedReplies == {"invalid_threshold", "not_found", "no_alerts"}

\* C34 as stated: an alert add with an unsupported or unparsable threshold
\* and an alert remove that names an unknown id or a symbol without active
\* rules are answered with a refusal and leave the users, the rules, the
\* events and the snapshots as they were; no user record is created.
C34_Stated ==
    [][(AddOfOtherWord \/ RemoveOfNothing) =>
          /\ last'.status \in RefusedReplies
          /\ users' = users
          /\ rules' = rules
          /\ events' = events
          /\ snapshots' = snapshots]_vars

(***************************************************************************)
(* The age of what the price source answers                                *)
(***************************************************************************)
\* the step is a call of get_current_price that answers a quote
QuoteAnswered ==
    /\ call'.fn = "get_current_price"
    /\ now' = now
    /\ call'.result[1] # NoQuote

\* C36: every quote that get_current_price answers was fetched from the
\* remote provider at most the fast-cache TTL plus the durable-cache TTL
\* before the call (360 s with 60 s and 300 s), after any sequence of calls
\* for any symbols.
C36_StalenessBound ==
    [][QuoteAnswered =>
          now - call'.result[1].timestamp
              <= STOCK_PRICE_CACHE_TTL + STOCK_PRICE_DB_CACHE_TTL]_vars

\* the fast cache has just answered a quote fetched 359 s ago, which it
\* holds as the copy of a durable entry that was 300 s old
C36_Witness ==
    /\ call.fn = "get_current_price"
    /\ call.result # <<NoQuote>>
    /\ now - call.result[1].timestamp = STOCK_PRICE_DB_CACHE_TTL + STOCK_PRICE_CACHE_TTL - 1
    /\ redis[call.arg[1]].quote = call.result[1]

(***************************************************************************)
(* Deactivated rules under the three tasks                                 *)
(***************************************************************************)
\* the rules that are inactive when the step starts
InertRules == {r \in DOMAIN rules : ~rules[r].is_active}

\* the operations that are ticks
TickOps == AlertTicks \cup {"SnapshotTick"}

\* the tick of this step does nothing with or to an inactive rule
InertUntouched ==
    \A r \in InertRules :
        /\ r \notin (last'.ids \cup last'.evaluated \cup last'.blocked
                        \cup last'.delivered \cup last'.sendFailed)
        /\ rules'[r] = rules[r]
        /\ lastEval'[r] = lastEval[r]
        /\ \A i \in (Len(events) + 1) .. Len(events') : events'[i].alert_rule_id # r
        /\ \A i \in (Len(outbox) + 1) .. Len(outbox') : outbox'[i].alert_id # r

\* the snapshot tick neither asks for nor samples a symbol without active rule
SamplesActiveOnly ==
    /\ \A i \in DOMAIN NewSnapshots : NewSnapshots[i].stock_symbol \in ActiveSymbols
    /\ \A symbol \in Symbols \ ActiveSymbols : FetchCount(symbol) = 0

\* C40: a deactivated rule is inert: a tick that starts after the rule was
\* deactivated never evaluates it, never changes its last_checked_at or
\* last_triggered_at, sends no notification and writes no alert_events row
\* for it, and the snapshot tick no longer samples a symbol that no active
\* rule refers to.
C40_DeactivatedInert ==
    [][/\ last'.op \in TickOps => InertUntouched
       /\ last'.op = "SnapshotTick" => SamplesActiveOnly]_vars

\* an alert tick has just delivered for a rule of one symbol while the
\* removed rules of the other symbol, of the same types, were left alone
C40_Witness ==
    /\ last.op \in AlertTicks
    /\ last.delivered # {}
    /\ \E r \in DOMAIN rules :
          /\ ~rules[r].is_active
          /\ rules[r].last_checked_at = None
          /\ lastEval[r] = None
          /\ \E d \in last.delivered : rules[d].alert_type = rules[r].alert_type

\* a snapshot tick has just sampled the one symbol that still has active rules
SamplingStopped ==
    /\ last.op = "SnapshotTick"
    /\ last.fetches = <<TCS>>
    /\ \E r \in DOMAIN rules : ~rules[r].is_active /\ rules[r].stock_symbol = INFY
    /\ snapshots[Len(snapshots)] = [stock_symbol |-> TCS,
                                      price |-> redis[TCS].quote.current_price,
                                      snapshot_time |-> now]

(***************************************************************************)
(* The retry of a failed task                                              *)
(***************************************************************************)
\* a task message is in flight
RetryPending == call.fn \in {"SnapshotTick", "GapTick", "WindowTick"}

\* the step is a run of the task in flight that raised out of the task
RaisedOut == RetryPending /\ call' # call /\ last'.status \in {"retry", "failure"}

\* the delay the claim gives each task
StatedDelay == IF call.fn = "GapTick" THEN 300 ELSE 60

\* the failed run left the store as it was, and either the same task is in
\* flight again, one retry further and due after the delay of the task, or
\* the run was the third retry and no message is left
RetriedOrDropped ==
    /\ <<users, rules, events, snapshots, outbox>>' = <<users, rules, events, snapshots, outbox>>
    /\ IF call.arg[1] < 3
       THEN /\ last'.status = "retry"
            /\ call' = [fn |-> call.fn, arg |-> <<call.arg[1] + 1, now + StatedDelay>>,
                        result |-> <<>>]
       ELSE /\ last'.status = "failure"
            /\ ~RetryPending'

\* a message is run no earlier than it is due, and is at most the third retry
DueAndBounded ==
    RetryPending =>
        /\ call.arg[1] \in 0 .. 3
        /\ (call' # call => (now >= call.arg[2] /\ last'.op = call.fn))

FailedEvents(r) ==
    {i \in DOMAIN events : events[i].alert_rule_id = r /\ ~events[i].notification_sent}

\* the latest delivery attempt of rule r failed
FailedPending(r) ==
    \E i \in FailedEvents(r) :
        \A j \in DOMAIN events :
            (j > i /\ events[j].alert_rule_id = r) => ~events[j].notification_sent

\* a notification of rule r went out after its latest failed attempt
SentAfterFailure(r) ==
    /\ FailedEvents(r) # {}
    /\ ~FailedPending(r)
    /\ \E m \in DOMAIN outbox : outbox[m].alert_id = r

\* a failed delivery leaves the rule active and without last_triggered_at
FailureKeepsRule ==
    \A r \in DOMAIN rules :
        (FailedEvents(r) # {} /\ FailedPending(r)) =>
            (rules[r].is_active /\ rules[r].last_triggered_at = None)

\* a delivery attempt of a window rule comes no earlier than the check
\* interval of the rule after a failed attempt of the same rule
WindowRetrySpacing ==
    \A k \in (Len(events) + 1) .. Len(events') :
        LET r == events'[k].alert_rule_id
        IN rules[r].alert_type.prefix \in {"drop_1h_", "drop_2h_", "spike_1h_", "spike_2h_"} =>
              \A i \in FailedEvents(r) :
                  events'[k].triggered_at
                      >= events[i].triggered_at + rules[r].check_interval_seconds

DoubleDelivery(es, r) ==
    \E i, j \in DOMAIN es :
       /\ i < j
       /\ es[i].alert_rule_id = r /\ es[i].notification_sent
       /\ es[j].alert_rule_id = r /\ es[j].notification_sent
       /\ es[j].triggered_at - es[i].triggered_at < ALERT_COOLDOWN_PERIOD

\* invocation i holds rule r at the statement pc
Holding(i, r, pc) ==
    /\ call.arg[i].pc = pc
    /\ call.arg[i].ids[call.arg[i].k] = r

\* invocation i delivers rule r in this step, having read last_triggered_at
\* before the store got the value it holds now
DeliversOnStaleRead(i, r) ==
    /\ Holding(i, r, "send")
    /\ call'.arg[i] # call.arg[i]
    /\ call.arg[i].rows[r].last_triggered_at # rules[r].last_triggered_at

\* a second delivery inside the cooldown comes only from an invocation that
\* read the rule before the first delivery was written
DoubleOnlyByRace ==
    \A r \in DOMAIN rules :
        (~DoubleDelivery(events, r) /\ DoubleDelivery(events', r))
            => \E i \in DOMAIN call.arg : DeliversOnStaleRead(i, r)

\* every invocation about to deliver passed the gate on the row it read
PassedOnOwnRead ==
    \A i \in DOMAIN call.arg :
        call.arg[i].pc = "send"
            => can_send_notification(call.arg[i].rows[call.arg[i].ids[call.arg[i].k]], now)

\* two invocations have both passed the gate for rule r, none has written
BothPassed(r) ==
    \E i, j \in DOMAIN call.arg :
       /\ i # j
       /\ Holding(i, r, "send")
       /\ Holding(j, r, "send")
       /\ rules[r].last_triggered_at = None

\* C31: nothing coordinates the invocations of a task: two that evaluate one
\* triggered rule at once can both read last_triggered_at before either
\* writes it, both pass can_send_notification and both deliver, so that two
\* delivered events of one rule lie less than the cooldown apart; every
\* invocation delivers on the row it read itself, and a second delivery
\* inside the cooldown arises in no other way than by such a read
C31_OverlapDoubleDelivery == [](PassedOnOwnRead) /\ [][DoubleOnlyByRace]_vars

\* two delivered events of one rule less than the cooldown apart, the second
\* delivered by an invocation that had passed the gate together with the first
C31_Witness ==
    /\ \E r \in DOMAIN rules : DoubleDelivery(events, r)
    /\ last.op = "OverlapDeliver"
    /\ last.status = "sent"

\* the state in between: both invocations are past the gate
BothPastGate == \E r \in DOMAIN rules : BothPassed(r)


====
